---- MODULE Spec2Model ----
(***************************************************************************)
(* The operation execution pipeline of the driver (executeOperation):      *)
(* connect-if-needed, session binding, server selection, retry policy and  *)
(* operation invocation, composed by pipe().  One pipeline run is a        *)
(* process whose position is pc; every await of the code is a position.    *)
(* The utilities of utils.ts follow, each with a specification of its own: *)
(* abortable (AbortableSpec), BufferPool (BufferPoolSpec) and List         *)
(* (ListSpec).                                                             *)
(***************************************************************************)
EXTENDS Integers, Sequences, FiniteSets, TLC

VARIABLES
    pc,           \* position of the run (the await it is suspended in)
    client,       \* client.topology != null, client.s.hasBeenClosed, the skip-ping option
    topology,     \* hasSessionSupport() and s.options.retryReads / retryWrites
    operation,    \* operation.session, operation.options
    session,      \* the ClientSession of the run (supplied by the caller or created)
    ctx,          \* the context record threaded through the middleware
    retry,        \* the locals of withRetryability
    pending,      \* completion travelling up the middleware stack (finally of withSession)
    outcome,      \* settlement of the promise executeOperation returned
    calls,        \* calls made for the operation on the collaborators, in order:
                  \* server selections with the operation's selector, invocations
                  \* of executeAsync, endSession, incrementTransactionNumber, unpin
    signal,       \* the AbortSignal the caller holds: aborted, reason
    promise,      \* the promise handed to abortable: state, value
    race,         \* one call of abortable: its locals, the reaction jobs, its outcome
    pool,         \* a BufferPool: buffers, totalByteLength, and what its methods returned
    list,         \* a List: head, nodes, count, and what its methods returned
    machine,      \* an object with state and the calls of stateTransition on it
    address,      \* a host string and the HostAddress constructed from it
    iterator,     \* a generator made by List.nodes and what it has yielded
    disposable,   \* a DisposableStack: its callbacks and a call of dispose
    fleet         \* concurrent runs on one client, each with its own context

\* The state of one executeOperation run
runVars == <<pc, client, topology, operation, session, ctx, retry, pending, outcome, calls>>

\* The utilities of utils.ts, which the pipeline does not use
utilVars == <<promise, race, pool, list, machine, address, iterator, disposable, fleet>>

vars == <<pc, client, topology, operation, session, ctx, retry, pending, outcome, calls,
          signal, promise, race, pool, list, machine, address, iterator, disposable,
          fleet>>

-----------------------------------------------------------------------------
(* Bounds and program constants *)

NumServers == 2

MMAPv1_RETRY_WRITES_ERROR_CODE == 20

MMAPv1_RETRY_WRITES_ERROR_MESSAGE ==
    "This MongoDB deployment does not support retryable writes. Please add retryWrites=false to your connection string."

Servers == 1 .. NumServers

\* server.loadBalanced, server.description.logicalSessionTimeoutMinutes != null,
\* server.description.type of the servers the topology can return
ServerDescription(s) ==
    [loadBalanced |-> FALSE,
     hasLogicalSessionTimeout |-> TRUE,
     type |-> IF s % 2 = 1 THEN "RSPrimary" ELSE "Standalone"]

\* utils.supportsRetryableWrites
SupportsRetryableWrites(s) ==
    IF s \notin Servers THEN FALSE
    ELSE IF ServerDescription(s).loadBalanced THEN TRUE
    ELSE IF ServerDescription(s).hasLogicalSessionTimeout
         THEN ServerDescription(s).type # "Standalone"
         ELSE FALSE

-----------------------------------------------------------------------------
(* Errors *)

RetryableWriteError == "RetryableWriteError"
NoWritesPerformed == "NoWritesPerformed"

NoKeys == {}

\* An error raised by operation.executeAsync on attempt n.  class is the
\* constructor, retryableRead the answer of isRetryableReadError.
OperationErrors(n) ==
    { [id |-> n, class |-> c, code |-> k, labels |-> l, retryableRead |-> rr,
       message |-> "operation failed", keys |-> NoKeys, carried |-> 0] :
         c \in {"Error", "MongoServerError", "MongoNetworkError"},
         k \in {0, MMAPv1_RETRY_WRITES_ERROR_CODE},
         l \in SUBSET {RetryableWriteError, NoWritesPerformed},
         rr \in BOOLEAN }

\* A plain Error has no code, labels or driver classification; a network error
\* carries no server code and is always a retryable read error; the legacy
\* storage engine code is not a retryable read code.
WellFormedError(e) ==
    /\ e.class = "Error" => e.code = 0 /\ e.labels = {} /\ ~e.retryableRead
    /\ e.class = "MongoNetworkError" => e.code = 0 /\ e.retryableRead
    /\ e.code = MMAPv1_RETRY_WRITES_ERROR_CODE => ~e.retryableRead

ErrorsOfAttempt(n) == { e \in OperationErrors(n) : WellFormedError(e) }

\* An error the pipeline or a collaborator other than the operation raises.
DriverError(class, message) ==
    [id |-> 0, class |-> class, code |-> 0, labels |-> {}, retryableRead |-> FALSE,
     message |-> message, keys |-> NoKeys, carried |-> 0]

NoError == DriverError("none", "")

\* operationError instanceof MongoError / MongoNetworkError
IsMongoError(e) == e.class \notin {"Error", "none"}
IsMongoNetworkError(e) == e.class = "MongoNetworkError"

\* error.isRetryableWriteError / isRetryableReadError / hasErrorLabel
IsRetryableWriteError(e) == RetryableWriteError \in e.labels
IsRetryableReadError(e) == e.retryableRead
HasErrorLabel(e, label) == label \in e.labels

\* new MongoServerError({ message, errmsg, operationError }): the keys of the
\* description other than message and errmsg become properties of the error.
MMAPv1Error(operationError) ==
    [id |-> 0, class |-> "MongoServerError", code |-> 0, labels |-> {},
     retryableRead |-> FALSE, message |-> MMAPv1_RETRY_WRITES_ERROR_MESSAGE,
     keys |-> {"operationError"}, carried |-> operationError.id]

\* error[name] for a property copied from the description: the id of the error
\* object it holds, 0 when the property is undefined
Property(e, name) == IF name \in e.keys THEN e.carried ELSE 0

-----------------------------------------------------------------------------
(* State *)

\* The session object of a run.  owner is the owner token: "none" when the
\* session has no owner, "other" for a token made outside this run (a cursor's
\* implicit session), "run" for the Symbol() this run made.
NoSession ==
    [exists |-> FALSE, explicit |-> FALSE, owner |-> "none", hasEnded |-> FALSE,
     isPinned |-> FALSE, txn |-> "none", txnNumber |-> 0]

\* Sessions a caller can put on the operation: started explicitly, or the
\* implicit session of a cursor; a session that has ended holds no pin and no
\* transaction.
SuppliedSessions ==
    { s \in [exists : {TRUE}, explicit : BOOLEAN, owner : {"none", "other"},
             hasEnded : BOOLEAN, isPinned : BOOLEAN,
             txn : {"none", "active", "committed"}, txnNumber : {0}] :
        /\ s.explicit <=> s.owner = "none"
        /\ s.hasEnded => ~s.isPinned /\ s.txn = "none" }

\* client.startSession({ owner, explicit: false })
StartSession(owner) ==
    [exists |-> TRUE, explicit |-> FALSE, owner |-> owner, hasEnded |-> FALSE,
     isPinned |-> FALSE, txn |-> "none", txnNumber |-> 0]

\* A test of the transaction that takes every transaction for committed
IsCommittedWhateverState(s) == s.exists

\* session.inTransaction(), session.transaction.isCommitted
InTransaction(s) == s.exists /\ s.txn = "active"
IsCommitted(s) == s.exists /\ s.txn = "committed"

NoContext ==
    [session |-> FALSE, owner |-> "none", readPreference |-> "none",
     inTransaction |-> FALSE, server |-> 0, selector |-> "none", result |-> "none"]

NoRetryLocals ==
    [stage |-> "none", retryable |-> FALSE, canRetryRead |-> FALSE,
     canRetryWrite |-> FALSE, hasReadAspect |-> FALSE, hasWriteAspect |-> FALSE,
     cursorCreating |-> FALSE, willRetryRead |-> FALSE, willRetryWrite |-> FALSE,
     willRetry |-> FALSE, operationError |-> NoError, server |-> 0,
     retryError |-> NoError]

NoCalls ==
    [select |-> <<>>, execute |-> <<>>, endSession |-> 0,
     increment |-> 0, unpin |-> <<>>]

\* A caller without an AbortSignal, and a signal not aborted yet
NoSignal == [given |-> FALSE, aborted |-> FALSE, reason |-> "none"]
IdleSignal == [given |-> TRUE, aborted |-> FALSE, reason |-> "none"]

\* executeOperation(client, operation) is called
RunInit ==
    /\ pc = "start"
    /\ client \in { c \in [topology : BOOLEAN, hasBeenClosed : BOOLEAN, skipPing : {FALSE}] :
                      c.hasBeenClosed => ~c.topology }
    /\ topology \in [sessionSupport : BOOLEAN, retryReads : BOOLEAN, retryWrites : BOOLEAN]
    /\ session \in SuppliedSessions \cup {NoSession}
    /\ operation = [session |-> session.exists, optionsSession |-> session.exists,
                    willRetryWrite |-> FALSE]
    /\ ctx = NoContext
    /\ retry = NoRetryLocals
    /\ pending = [status |-> "none", error |-> NoError]
    /\ outcome = [status |-> "pending", result |-> "none", error |-> NoError]
    /\ calls = NoCalls

\* No promise, call of abortable, BufferPool or List exists
Unused == "unused"

UtilitiesUnused ==
    /\ promise = Unused
    /\ race = Unused
    /\ pool = Unused
    /\ list = Unused
    /\ machine = Unused
    /\ address = Unused
    /\ iterator = Unused
    /\ disposable = Unused
    /\ fleet = Unused

Init ==
    /\ RunInit
    /\ signal = NoSignal
    /\ UtilitiesUnused

-----------------------------------------------------------------------------
(* Settlements *)

\* executeOperation's promise rejects with e: no finally block is on the way.
Reject(e) ==
    /\ pc' = "done"
    /\ outcome' = [status |-> "rejected", result |-> "none", error |-> e]

\* A throw that passes by the finally block of withSession
ThrowPastFinally(e) ==
    /\ pc' = "done"
    /\ pending' = [status |-> "error", error |-> e]

\* An error thrown below withSession's try block: the finally block runs first.
Throw(e) ==
    /\ pc' = "cleanup"
    /\ pending' = [status |-> "error", error |-> e]

\* The stages below withSession's try block returned normally.
Return ==
    /\ pc' = "cleanup"
    /\ pending' = [status |-> "ok", error |-> NoError]

\* The settlement the caller sees once withSession is left.
Settle(p, c) ==
    IF p.status = "ok"
    THEN [status |-> "resolved", result |-> c.result, error |-> NoError]
    ELSE [status |-> "rejected", result |-> "none", error |-> p.error]

-----------------------------------------------------------------------------
(* Stage 1: withConnectedClient *)

WithConnectedClient ==
    /\ pc = "start"
    /\ IF client.topology
       THEN /\ pc' = "withSession"
            /\ UNCHANGED <<client, outcome>>
       ELSE IF client.hasBeenClosed
       THEN /\ Reject(DriverError("MongoNotConnectedError",
                                  "Client must be connected before running operations"))
            /\ UNCHANGED client
       ELSE /\ client' = [client EXCEPT !.skipPing = TRUE]
            /\ pc' = "connecting"
            /\ UNCHANGED outcome
    /\ UNCHANGED <<topology, operation, session, ctx, retry, pending, calls>>

\* A connect stage that deletes the skip-ping option only after a connect
\* that succeeded
ConnectSettledKeepingFlagOnFailure ==
    /\ pc = "connecting"
    /\ \E ok \in BOOLEAN :
         IF ok
         THEN /\ client' = [client EXCEPT !.topology = TRUE, !.skipPing = FALSE]
              /\ pc' = "withSession"
              /\ UNCHANGED outcome
         ELSE /\ UNCHANGED client
              /\ Reject(DriverError("MongoServerSelectionError", "connect failed"))
    /\ UNCHANGED <<topology, operation, session, ctx, retry, pending, calls>>

\* client.connect() settles; the finally block deletes the skip-ping option.
ConnectSettled ==
    /\ pc = "connecting"
    /\ \E ok \in BOOLEAN :
         IF ok
         THEN /\ client' = [client EXCEPT !.topology = TRUE, !.skipPing = FALSE]
              /\ pc' = "withSession"
              /\ UNCHANGED outcome
         ELSE /\ client' = [client EXCEPT !.skipPing = FALSE]
              /\ Reject(DriverError("MongoServerSelectionError", "connect failed"))
    /\ UNCHANGED <<topology, operation, session, ctx, retry, pending, calls>>

-----------------------------------------------------------------------------
(* Stage 2: withSession *)

\* topology.shouldCheckForSessionSupport(): when true the stage first awaits
\* topology.selectServerAsync(ReadPreference.primaryPreferred, {}).
WithSession ==
    /\ pc = "withSession"
    /\ \E shouldCheckForSessionSupport \in BOOLEAN :
         pc' = IF shouldCheckForSessionSupport THEN "checkingSessionSupport" ELSE "bind"
    /\ UNCHANGED <<client, topology, operation, session, ctx, retry, pending, outcome,
                   calls>>

SessionSupportChecked ==
    /\ pc = "checkingSessionSupport"
    /\ \E ok \in BOOLEAN :
         IF ok
         THEN pc' = "bind" /\ UNCHANGED outcome
         ELSE Reject(DriverError("MongoServerSelectionError", "server selection timed out"))
    /\ UNCHANGED <<client, topology, operation, session, ctx, retry, pending, calls>>

\* A binding stage that does not look at session.hasEnded
SessionCheckWithoutExpiry(sessionSupport, s, snapshotUnsupported) ==
    IF sessionSupport
    THEN IF s.exists /\ snapshotUnsupported THEN "MongoCompatibilityError" ELSE "none"
    ELSE IF s.exists /\ s.explicit THEN "MongoCompatibilityError"
         ELSE "none"

\* A binding stage that lets an explicit session through on a topology without
\* session support
SessionCheckWithoutCompatibility(sessionSupport, s, snapshotUnsupported) ==
    IF sessionSupport
    THEN IF ~s.exists THEN "none"
         ELSE IF s.hasEnded THEN "MongoExpiredSessionError"
         ELSE IF snapshotUnsupported THEN "MongoCompatibilityError"
         ELSE "none"
    ELSE "none"

\* The error lines 86-107 throw for the session the operation carries, "none"
\* when they throw nothing.
SessionCheck(sessionSupport, s, snapshotUnsupported) ==
    IF sessionSupport
    THEN IF ~s.exists THEN "none"
         ELSE IF s.hasEnded THEN "MongoExpiredSessionError"
         ELSE IF snapshotUnsupported THEN "MongoCompatibilityError"
         ELSE "none"
    ELSE IF s.exists /\ s.explicit THEN "MongoCompatibilityError"
         ELSE "none"

SessionCheckMessage(class, sessionSupport) ==
    IF class = "MongoExpiredSessionError" THEN "Use of expired sessions is not permitted"
    ELSE IF sessionSupport THEN "Snapshot reads require MongoDB 5.0 or later"
    ELSE "Current topology does not support sessions"

\* An ownership test without the null check: undefined === undefined
OwnsSessionWithoutNullCheck(bound, s, owner) ==
    bound /\ s.owner = owner

\* An ownership test that takes any owned session for its own
OwnsSessionWhateverOwner(bound, s, owner) ==
    bound /\ s.owner # "none"

\* session.owner != null && session.owner === owner, for the session and the
\* owner token withSession holds
OwnsSession(bound, s, owner) ==
    bound /\ s.owner # "none" /\ s.owner = owner

\* A binding stage that never tests the read preference of a transaction
TransactionCheckSkipped(inTransaction, readPreference) == FALSE

\* inTransaction && !readPreference.equals(ReadPreference.primary): the stage
\* throws MongoTransactionError
TransactionCheck(inTransaction, readPreference) ==
    inTransaction /\ readPreference # "primary"

\* The synchronous part of withSession from line 80 to the call of next().
BindSession ==
    /\ pc = "bind"
    /\ \E snapshotEnabled \in BOOLEAN, supportsSnapshotReads \in BOOLEAN,
          opReadPreference \in {"none", "primary", "secondary"},
          bypassPinningCheck \in BOOLEAN :
         LET supplied == operation.session
             carried == IF supplied THEN session ELSE NoSession
             check == SessionCheck(topology.sessionSupport, carried,
                                   carried.exists /\ snapshotEnabled /\ ~supportsSnapshotReads)
             create == topology.sessionSupport /\ ~supplied
             drop == ~topology.sessionSupport /\ supplied /\ ~session.explicit
             owner == IF create THEN "run" ELSE "none"
             bound == IF create THEN StartSession(owner) ELSE session
             hasSession == create \/ (supplied /\ ~drop)
             readPreference == IF opReadPreference = "none" THEN "primary"
                               ELSE opReadPreference
             inTransaction == hasSession /\ InTransaction(bound)
             unpin == hasSession /\ bound.isPinned /\ IsCommitted(bound)
                        /\ ~bypassPinningCheck
         IN IF check # "none"
            THEN /\ Reject(DriverError(check, SessionCheckMessage(check, topology.sessionSupport)))
                 /\ UNCHANGED <<operation, session, ctx, calls>>
            ELSE IF TransactionCheck(inTransaction, readPreference)
            THEN /\ Reject(DriverError("MongoTransactionError",
                                       "Read preference in a transaction must be primary"))
                 /\ session' = bound
                 /\ operation' = IF drop
                                 THEN [operation EXCEPT !.session = FALSE,
                                                        !.optionsSession = FALSE]
                                 ELSE operation
                 /\ UNCHANGED <<ctx, calls>>
            ELSE /\ session' = IF unpin THEN [bound EXCEPT !.isPinned = FALSE] ELSE bound
                 /\ calls' = IF unpin
                             THEN [calls EXCEPT !.unpin =
                                     Append(@, [force |-> FALSE, txn |-> bound.txn,
                                                bypassPinningCheck |-> bypassPinningCheck])]
                             ELSE calls
                 /\ operation' = IF drop
                                 THEN [operation EXCEPT !.session = FALSE,
                                                        !.optionsSession = FALSE]
                                 ELSE operation
                 /\ ctx' = [ctx EXCEPT !.session = hasSession, !.owner = owner,
                                       !.readPreference = readPreference,
                                       !.inTransaction = inTransaction]
                 /\ pc' = "withServer"
                 /\ UNCHANGED outcome
    /\ UNCHANGED <<client, topology, retry, pending>>

-----------------------------------------------------------------------------
(* Stage 3: withServer *)

\* A choice of selector that asks for secondary writes first
SelectorSecondaryWriteFirst(mustSelectSameServer, trySecondaryWrite, readPreference) ==
    IF trySecondaryWrite THEN "secondaryWritable"
    ELSE IF mustSelectSameServer THEN "sameServer"
    ELSE readPreference

\* sameServerSelector, secondaryWritableServerSelector or the read preference
Selector(mustSelectSameServer, trySecondaryWrite, readPreference) ==
    IF mustSelectSameServer THEN "sameServer"
    ELSE IF trySecondaryWrite THEN "secondaryWritable"
    ELSE readPreference

WithServer ==
    /\ pc = "withServer"
    /\ \E mustSelectSameServer \in BOOLEAN, trySecondaryWrite \in BOOLEAN :
         LET selector == Selector(mustSelectSameServer, trySecondaryWrite, ctx.readPreference)
         IN calls' = [calls EXCEPT !.select =
                        Append(@, [selector |-> selector, session |-> ctx.session,
                                   pinned |-> ctx.session /\ session.isPinned,
                                   mustSelectSameServer |-> mustSelectSameServer,
                                   trySecondaryWrite |-> trySecondaryWrite,
                                   by |-> "withServer"])]
    /\ pc' = "selecting"
    /\ UNCHANGED <<client, topology, operation, session, ctx, retry, pending, outcome>>

\* topology.selectServerAsync(selector, { session }) settles; selector is the
\* local of withServer, the one the call was made with.
ServerSelected ==
    /\ pc = "selecting"
    /\ \/ \E server \in Servers :
            /\ ctx' = [ctx EXCEPT !.server = server,
                                  !.selector = calls.select[Len(calls.select)].selector]
            /\ pc' = "withRetryability"
            /\ UNCHANGED pending
       \/ /\ Throw(DriverError("MongoServerSelectionError", "server selection timed out"))
          /\ UNCHANGED ctx
    /\ UNCHANGED <<client, topology, operation, session, retry, outcome, calls>>

-----------------------------------------------------------------------------
(* Stage 5: runCommand *)

\* operation.executeAsync(context.server, context.session) is called; s is the
\* session object at that moment.
RunCommand(c, s, history) ==
    [history EXCEPT !.execute =
        Append(@, [server |-> c.server, session |-> c.session,
                   hasEnded |-> c.session /\ s.hasEnded,
                   txnNumber |-> IF c.session THEN s.txnNumber ELSE 0,
                   state |-> "pending", error |-> NoError])]

\* The pending invocation settles, with error e when it rejects.
Settled(history, state, e) ==
    [history EXCEPT !.execute[Len(history.execute)].state = state,
                    !.execute[Len(history.execute)].error = e]

-----------------------------------------------------------------------------
(* Stage 4: withRetryability *)

WillRetryRead(retryReads, inTransaction, canRetryRead) ==
    retryReads /\ ~inTransaction /\ canRetryRead

\* A write-retry decision that does not ask operation.canRetryWrite
WillRetryWriteWhateverOperation(retryWrites, inTransaction, server, canRetryWrite) ==
    retryWrites /\ ~inTransaction /\ SupportsRetryableWrites(server)

WillRetryWrite(retryWrites, inTransaction, server, canRetryWrite) ==
    retryWrites /\ ~inTransaction /\ SupportsRetryableWrites(server) /\ canRetryWrite

\* A decision to retry that does not ask which aspect the operation has
WillRetryWhateverAspect(hasReadAspect, willRetryRead, hasWriteAspect, willRetryWrite) ==
    willRetryRead \/ willRetryWrite

WillRetry(hasReadAspect, willRetryRead, hasWriteAspect, willRetryWrite) ==
    (hasReadAspect /\ willRetryRead) \/ (hasWriteAspect /\ willRetryWrite)

\* Lines 162-199: the early exits, the eligibility flags, the transaction
\* number, and the first call of next().  A flag the code does not evaluate
\* (short-circuit) keeps its initial value.  The stage is reached only after
\* withConnectedClient left client.topology set, so line 165 never throws.
WithRetryability ==
    /\ pc = "withRetryability"
    /\ \E retryable \in (IF ctx.session THEN BOOLEAN ELSE {FALSE}) :
       \E hasReadAspect \in (IF retryable THEN BOOLEAN ELSE {FALSE}),
          hasWriteAspect \in (IF retryable THEN BOOLEAN ELSE {FALSE}),
          canRetryRead \in (IF retryable /\ topology.retryReads /\ ~ctx.inTransaction
                            THEN BOOLEAN ELSE {FALSE}),
          canRetryWrite \in (IF retryable /\ topology.retryWrites /\ ~ctx.inTransaction
                                /\ SupportsRetryableWrites(ctx.server)
                             THEN BOOLEAN ELSE {FALSE}) :
         IF ~ctx.session \/ ~retryable
         THEN /\ retry' = [retry EXCEPT !.stage = "passthrough"]
              /\ UNCHANGED <<operation, session>>
              /\ calls' = RunCommand(ctx, session, calls)
         ELSE LET willRetryRead ==
                    WillRetryRead(topology.retryReads, ctx.inTransaction, canRetryRead)
                  willRetryWrite ==
                    WillRetryWrite(topology.retryWrites, ctx.inTransaction, ctx.server,
                                   canRetryWrite)
                  willRetry ==
                    WillRetry(hasReadAspect, willRetryRead, hasWriteAspect, willRetryWrite)
                  increment == hasWriteAspect /\ willRetryWrite
              IN /\ retry' = [retry EXCEPT !.stage = "guarded", !.retryable = TRUE,
                                           !.canRetryRead = canRetryRead,
                                           !.canRetryWrite = canRetryWrite,
                                           !.hasReadAspect = hasReadAspect,
                                           !.hasWriteAspect = hasWriteAspect,
                                           !.willRetryRead = willRetryRead,
                                           !.willRetryWrite = willRetryWrite,
                                           !.willRetry = willRetry]
                 /\ operation' = IF increment
                                 THEN [operation EXCEPT !.willRetryWrite = TRUE]
                                 ELSE operation
                 /\ session' = IF increment
                               THEN [session EXCEPT !.txnNumber = @ + 1]
                               ELSE session
                 /\ calls' = IF increment
                             THEN RunCommand(ctx, [session EXCEPT !.txnNumber = @ + 1],
                                             [calls EXCEPT !.increment = @ + 1])
                             ELSE RunCommand(ctx, session, calls)
    /\ pc' = "executing"
    /\ UNCHANGED <<client, topology, ctx, pending, outcome>>

\* A catch block that looks at the retryable-write marker before the MMAPv1 code
CatchDecisionMarkerBeforeMMAPv1(r, operationError) ==
    IF r.willRetry /\ IsMongoError(operationError)
    THEN IF r.hasWriteAspect /\ ~IsRetryableWriteError(operationError)
         THEN "rethrow"
         ELSE IF r.hasWriteAspect /\ operationError.code = MMAPv1_RETRY_WRITES_ERROR_CODE
         THEN "mmapv1"
         ELSE IF r.hasReadAspect /\ ~IsRetryableReadError(operationError)
         THEN "rethrow"
         ELSE "retry"
    ELSE "rethrow"

\* A catch block that does not look at the retryable-read marker
CatchDecisionIgnoringReadMarker(r, operationError) ==
    IF r.willRetry /\ IsMongoError(operationError)
    THEN IF r.hasWriteAspect /\ operationError.code = MMAPv1_RETRY_WRITES_ERROR_CODE
         THEN "mmapv1"
         ELSE IF r.hasWriteAspect /\ ~IsRetryableWriteError(operationError)
         THEN "rethrow"
         ELSE "retry"
    ELSE "rethrow"

\* What the catch block at line 200 does with the first failure: "mmapv1"
\* throws the rewritten error, "rethrow" throws operationError, "retry" goes on
\* to re-select a server.
CatchDecision(r, operationError) ==
    IF r.willRetry /\ IsMongoError(operationError)
    THEN IF r.hasWriteAspect /\ operationError.code = MMAPv1_RETRY_WRITES_ERROR_CODE
         THEN "mmapv1"
         ELSE IF r.hasWriteAspect /\ ~IsRetryableWriteError(operationError)
         THEN "rethrow"
         ELSE IF r.hasReadAspect /\ ~IsRetryableReadError(operationError)
         THEN "rethrow"
         ELSE "retry"
    ELSE "rethrow"

\* An unpin condition that does not look at session.isPinned
NetworkErrorOnAnySession(operationError, s) ==
    IsMongoNetworkError(operationError) /\ ~InTransaction(s)

\* Lines 222-227, without the aspect of the operation
NetworkErrorOnPinnedSession(operationError, s) ==
    IsMongoNetworkError(operationError) /\ s.isPinned /\ ~InTransaction(s)

\* The first invocation of operation.executeAsync settles.
ExecuteSettled ==
    /\ pc = "executing"
    /\ \/ /\ ctx' = [ctx EXCEPT !.result = "result1"]
          /\ calls' = Settled(calls, "fulfilled", NoError)
          /\ Return
          /\ UNCHANGED <<session, retry>>
       \/ \E operationError \in ErrorsOfAttempt(1) :
            LET decision == IF retry.stage = "guarded"
                            THEN CatchDecision(retry, operationError)
                            ELSE "rethrow"
            IN IF decision = "retry"
               THEN \E cursorCreating \in
                         (IF NetworkErrorOnPinnedSession(operationError, session)
                          THEN BOOLEAN ELSE {FALSE}) :
                      LET unpin == NetworkErrorOnPinnedSession(operationError, session)
                                     /\ cursorCreating
                      IN /\ session' = IF unpin THEN [session EXCEPT !.isPinned = FALSE]
                                       ELSE session
                         /\ retry' = [retry EXCEPT !.operationError = operationError,
                                                   !.cursorCreating = cursorCreating]
                         /\ calls' =
                              [Settled(IF unpin
                                       THEN [calls EXCEPT !.unpin =
                                               Append(@, [force |-> TRUE, txn |-> session.txn])]
                                       ELSE calls, "rejected", operationError)
                               EXCEPT !.select =
                                  Append(@, [selector |-> ctx.selector, session |-> ctx.session,
                                             pinned |-> session.isPinned /\ ~unpin,
                                             by |-> "withRetryability"])]
                         /\ pc' = "reselecting"
                         /\ UNCHANGED <<ctx, pending>>
               ELSE /\ Throw(IF decision = "mmapv1" THEN MMAPv1Error(operationError)
                             ELSE operationError)
                    /\ retry' = IF retry.stage = "guarded"
                                THEN [retry EXCEPT !.operationError = operationError]
                                ELSE retry
                    /\ calls' = Settled(calls, "rejected", operationError)
                    /\ UNCHANGED <<ctx, session>>
    /\ UNCHANGED <<client, topology, operation, outcome>>

\* A retry that advances the transaction number again
RetryServerSelectedIncrementing ==
    /\ pc = "reselecting"
    /\ \E server \in Servers :
         /\ retry' = [retry EXCEPT !.server = server]
         /\ session' = [session EXCEPT !.txnNumber = @ + 1]
         /\ calls' = RunCommand(ctx, [session EXCEPT !.txnNumber = @ + 1],
                                [calls EXCEPT !.increment = @ + 1])
         /\ pc' = "retrying"
    /\ UNCHANGED <<client, topology, operation, ctx, pending, outcome>>

\* A re-selection that does not look at what the selected server supports
RetryServerSelectedUnchecked ==
    /\ pc = "reselecting"
    /\ \/ \E server \in Servers :
            /\ retry' = [retry EXCEPT !.server = server]
            /\ calls' = RunCommand(ctx, session, calls)
            /\ pc' = "retrying"
            /\ UNCHANGED pending
       \/ /\ Throw(DriverError("MongoServerSelectionError", "server selection timed out"))
          /\ UNCHANGED <<retry, calls>>
    /\ UNCHANGED <<client, topology, operation, session, ctx, outcome>>

\* Lines 235-245: the re-selection settles; its server is a local of the catch
\* block, and next() runs runCommand on the context.
RetryServerSelected ==
    /\ pc = "reselecting"
    /\ \/ \E server \in Servers :
            IF retry.hasWriteAspect /\ ~SupportsRetryableWrites(server)
            THEN /\ Throw(DriverError("MongoUnexpectedServerResponseError",
                                      "Selected server does not support retryable writes"))
                 /\ retry' = [retry EXCEPT !.server = server]
                 /\ UNCHANGED calls
            ELSE /\ retry' = [retry EXCEPT !.server = server]
                 /\ calls' = RunCommand(ctx, session, calls)
                 /\ pc' = "retrying"
                 /\ UNCHANGED pending
       \/ /\ Throw(DriverError("MongoServerSelectionError", "server selection timed out"))
          /\ UNCHANGED <<retry, calls>>
    /\ UNCHANGED <<client, topology, operation, session, ctx, outcome>>

\* An inner catch block that always throws the second failure
RetryFailureAlwaysSecond(operationError, retryError) == retryError

\* Lines 246-254: the error the inner catch block throws
RetryFailure(operationError, retryError) ==
    IF IsMongoError(retryError) /\ HasErrorLabel(retryError, NoWritesPerformed)
    THEN operationError
    ELSE retryError

\* A retry stage that answers a failed retry with one more attempt
RetrySettledRetriesAgain ==
    /\ pc = "retrying"
    /\ \E retryError \in ErrorsOfAttempt(2) :
         IF Len(calls.execute) < 3
         THEN /\ calls' = RunCommand(ctx, session, Settled(calls, "rejected", retryError))
              /\ UNCHANGED <<pc, pending>>
         ELSE /\ calls' = Settled(calls, "rejected", retryError)
              /\ Throw(retryError)
    /\ UNCHANGED <<client, topology, operation, session, ctx, retry, outcome>>

\* The second invocation settles.  When it fulfils, control leaves the inner
\* try statement and the if statement and reaches line 256.
RetrySettled ==
    /\ pc = "retrying"
    /\ \/ /\ ctx' = [ctx EXCEPT !.result = "result2"]
          /\ calls' = Settled(calls, "fulfilled", NoError)
          /\ Throw(retry.operationError)
          /\ UNCHANGED retry
       \/ \E retryError \in ErrorsOfAttempt(2) :
            /\ calls' = Settled(calls, "rejected", retryError)
            /\ retry' = [retry EXCEPT !.retryError = retryError]
            /\ Throw(RetryFailure(retry.operationError, retryError))
            /\ UNCHANGED ctx
    /\ UNCHANGED <<client, topology, operation, session, outcome>>

-----------------------------------------------------------------------------
(* The finally block of withSession *)

\* A session end placed after next() instead of in a finally block
CleanupOnSuccessOnly ==
    /\ pc = "cleanup"
    /\ IF pending.status = "ok" /\ OwnsSession(ctx.session, session, ctx.owner)
       THEN /\ calls' = [calls EXCEPT !.endSession = @ + 1]
            /\ pc' = "ending"
            /\ UNCHANGED outcome
       ELSE /\ outcome' = Settle(pending, ctx)
            /\ pc' = "done"
            /\ UNCHANGED calls
    /\ UNCHANGED <<client, topology, operation, session, ctx, retry, pending>>

Cleanup ==
    /\ pc = "cleanup"
    /\ IF OwnsSession(ctx.session, session, ctx.owner)
       THEN /\ calls' = [calls EXCEPT !.endSession = @ + 1]
            /\ pc' = "ending"
            /\ UNCHANGED outcome
       ELSE /\ outcome' = Settle(pending, ctx)
            /\ pc' = "done"
            /\ UNCHANGED calls
    /\ UNCHANGED <<client, topology, operation, session, ctx, retry, pending>>

\* session.endSession() settles; .catch(() => null) drops its rejection.
EndSessionSettled ==
    /\ pc = "ending"
    /\ \E ok \in BOOLEAN :
         session' = IF ok THEN [session EXCEPT !.hasEnded = TRUE] ELSE session
    /\ outcome' = Settle(pending, ctx)
    /\ pc' = "done"
    /\ UNCHANGED <<client, topology, operation, ctx, retry, pending, calls>>

-----------------------------------------------------------------------------

\* No stage of the pipeline reads or writes anything outside the run.
Next ==
    \/ WithConnectedClient /\ UNCHANGED <<signal, utilVars>>
    \/ ConnectSettled /\ UNCHANGED <<signal, utilVars>>
    \/ WithSession /\ UNCHANGED <<signal, utilVars>>
    \/ SessionSupportChecked /\ UNCHANGED <<signal, utilVars>>
    \/ BindSession /\ UNCHANGED <<signal, utilVars>>
    \/ WithServer /\ UNCHANGED <<signal, utilVars>>
    \/ ServerSelected /\ UNCHANGED <<signal, utilVars>>
    \/ WithRetryability /\ UNCHANGED <<signal, utilVars>>
    \/ ExecuteSettled /\ UNCHANGED <<signal, utilVars>>
    \/ RetryServerSelected /\ UNCHANGED <<signal, utilVars>>
    \/ RetrySettled /\ UNCHANGED <<signal, utilVars>>
    \/ Cleanup /\ UNCHANGED <<signal, utilVars>>
    \/ EndSessionSettled /\ UNCHANGED <<signal, utilVars>>

Spec == Init /\ [][Next]_vars

-----------------------------------------------------------------------------
(* A run whose caller holds an AbortSignal *)

\* The run is suspended in connect, in a server selection or in an invocation
\* of the operation.
Suspended ==
    pc \in {"connecting", "checkingSessionSupport", "selecting", "executing",
            "reselecting", "retrying"}

\* The 'abort' event of the caller's signal.  The caller's code runs while the
\* run is suspended in an await (run to completion).  executeOperationAsync
\* takes the client and the operation only: the context it builds holds no
\* signal and no stage awaits through abortable, so the event meets no listener
\* of the run.
AbortRaised ==
    /\ signal.given
    /\ ~signal.aborted
    /\ Suspended \/ pc = "ending"
    /\ signal' = [signal EXCEPT !.aborted = TRUE, !.reason = "AbortError"]
    /\ UNCHANGED <<runVars, utilVars>>

CancellableInit ==
    /\ RunInit
    /\ signal = IdleSignal
    /\ UtilitiesUnused

CancellableNext ==
    \/ Next
    \/ AbortRaised

CancellableSpec == CancellableInit /\ [][CancellableNext]_vars

-----------------------------------------------------------------------------
(* Properties of the retry stage *)

Invocations == Len(calls.execute)

FirstFailed == Invocations >= 1 /\ calls.execute[1].state = "rejected"

Reselections == { i \in DOMAIN calls.select : calls.select[i].by = "withRetryability" }

\* C1: operation.executeAsync is invoked at most twice per run, and the second
\* invocation starts only after the first one has failed.
AtMostTwoSequentialInvocations ==
    /\ Invocations <= 2
    /\ Invocations = 2 => calls.execute[1].state = "rejected"
    /\ Cardinality({ i \in DOMAIN calls.execute : calls.execute[i].state = "pending" }) <= 1

SecondInvocationPending ==
    /\ Invocations = 2
    /\ calls.execute[2].state = "pending"
    /\ calls.execute[1].state = "rejected"

\* C2: when the first invocation fails with a retryable error and the second
\* invocation succeeds, executeOperation resolves with the second result.
RetrySuccessResolves ==
    (pc = "done" /\ Invocations = 2 /\ calls.execute[2].state = "fulfilled")
        => outcome.status = "resolved" /\ outcome.result = "result2"

\* The operation has the write (read) aspect, or the run left the retry stage
\* by an early exit without asking for the aspects, so that it may have it.
MayBeWrite == retry.stage = "passthrough" \/ retry.hasWriteAspect
MayBeRead == retry.stage = "passthrough" \/ retry.hasReadAspect

\* The first failure is surfaced as it was raised and nothing was retried.
SurfacedUnchangedWithoutRetry(e) ==
    /\ Invocations = 1
    /\ Reselections = {}
    /\ pc \in {"cleanup", "ending", "done"}
    /\ pc # "done" => pending.status = "error" /\ pending.error = e
    /\ pc = "done" => outcome.status = "rejected" /\ outcome.error = e

\* C3 as stated: a write failing with a driver error without the retryable-write
\* marker (code other than the MMAPv1 code), or a read failing with a driver
\* error without the retryable-read marker, is not retried and the same error
\* is surfaced.
UnmarkedFailureNotRetried ==
    LET e == calls.execute[1].error
    IN (/\ FirstFailed
        /\ IsMongoError(e)
        /\ \/ /\ MayBeWrite
              /\ ~IsRetryableWriteError(e)
              /\ e.code # MMAPv1_RETRY_WRITES_ERROR_CODE
           \/ /\ MayBeRead
              /\ ~IsRetryableReadError(e))
       => SurfacedUnchangedWithoutRetry(e)

\* C3, amended: the same, where a read that is also a write is covered only
\* when the code of its failure is not the MMAPv1 code.
UnmarkedFailureNotRetriedUnlessMMAPv1 ==
    LET e == calls.execute[1].error
    IN (/\ FirstFailed
        /\ IsMongoError(e)
        /\ \/ /\ MayBeWrite
              /\ ~IsRetryableWriteError(e)
              /\ e.code # MMAPv1_RETRY_WRITES_ERROR_CODE
           \/ /\ MayBeRead
              /\ ~IsRetryableReadError(e)
              /\ ~(MayBeWrite /\ e.code = MMAPv1_RETRY_WRITES_ERROR_CODE))
       => SurfacedUnchangedWithoutRetry(e)

UnmarkedReadFailureSurfaced ==
    /\ pc = "done"
    /\ retry.willRetry
    /\ retry.hasReadAspect
    /\ ~retry.hasWriteAspect
    /\ FirstFailed
    /\ IsMongoError(calls.execute[1].error)
    /\ ~IsRetryableReadError(calls.execute[1].error)
    /\ outcome.error = calls.execute[1].error

\* The run is a write that is eligible for write retry.
WriteRetryEligible ==
    /\ retry.stage = "guarded"
    /\ retry.hasWriteAspect
    /\ topology.retryWrites
    /\ ~ctx.inTransaction
    /\ SupportsRetryableWrites(ctx.server)
    /\ retry.canRetryWrite

\* C4: for a write eligible for write retry, incrementTransactionNumber is
\* called exactly once, before the first invocation, with or without a retry.
TransactionNumberIncrementedOnce ==
    WriteRetryEligible =>
        /\ calls.increment = 1
        /\ session.txnNumber = 1
        /\ \A i \in DOMAIN calls.execute : calls.execute[i].txnNumber = 1

RetriedWriteKeepsTransactionNumber ==
    /\ WriteRetryEligible
    /\ Invocations = 2
    /\ pc = "done"
    /\ calls.execute[2].txnNumber = 1

\* C5: when both attempts fail, a second failure that is a driver error with
\* the NoWritesPerformed label surfaces the first attempt's error, and any
\* other second failure is surfaced itself.
SecondFailureSurfacing ==
    (Invocations = 2 /\ calls.execute[2].state = "rejected") =>
        LET first == calls.execute[1].error
            second == calls.execute[2].error
            surfaced == IF IsMongoError(second) /\ NoWritesPerformed \in second.labels
                        THEN first ELSE second
        IN /\ pc \in {"cleanup", "ending", "done"}
           /\ pc # "done" => pending.status = "error" /\ pending.error = surfaced
           /\ pc = "done" => outcome.status = "rejected" /\ outcome.error = surfaced

NoWritesPerformedSurfacesFirstFailure ==
    /\ pc = "done"
    /\ Invocations = 2
    /\ calls.execute[2].state = "rejected"
    /\ NoWritesPerformed \in calls.execute[2].error.labels
    /\ outcome.error = calls.execute[1].error
    /\ outcome.error.id = 1

\* The run may retry: the operation is a read eligible for read retry or a
\* write eligible for write retry.
RetryEligible ==
    \/ WriteRetryEligible
    \/ /\ retry.stage = "guarded"
       /\ retry.hasReadAspect
       /\ topology.retryReads
       /\ ~ctx.inTransaction
       /\ retry.canRetryRead

\* The error surfaced is the rewritten MMAPv1 error.
SurfacesMMAPv1Error(e) ==
    /\ e.class = "MongoServerError"
    /\ e.message = MMAPv1_RETRY_WRITES_ERROR_MESSAGE

\* C6 as stated: every write that reaches the retry stage with a session and
\* the RETRYABLE aspect and fails with code 20 is rejected with the fixed
\* message and is not invoked again.
MMAPv1AlwaysRewritten ==
    (/\ FirstFailed
     /\ retry.stage = "guarded"
     /\ retry.hasWriteAspect
     /\ calls.execute[1].error.code = MMAPv1_RETRY_WRITES_ERROR_CODE)
    => /\ Invocations = 1
       /\ pc = "done" => outcome.status = "rejected" /\ SurfacesMMAPv1Error(outcome.error)

\* C6, amended: such a write is rejected with the fixed message when the run is
\* eligible for retry, and with the code 20 error itself when it is not; in
\* both cases the operation is not invoked again.
MMAPv1RewrittenWhenRetryEligible ==
    LET e == calls.execute[1].error
    IN (/\ FirstFailed
        /\ retry.stage = "guarded"
        /\ retry.hasWriteAspect
        /\ e.code = MMAPv1_RETRY_WRITES_ERROR_CODE)
       => /\ Invocations = 1
          /\ Reselections = {}
          /\ pc \in {"cleanup", "ending", "done"}
          /\ RetryEligible =>
               /\ pc # "done" => pending.status = "error" /\ SurfacesMMAPv1Error(pending.error)
               /\ pc = "done" => outcome.status = "rejected"
                                   /\ SurfacesMMAPv1Error(outcome.error)
          /\ ~RetryEligible => SurfacedUnchangedWithoutRetry(e)

MarkedMMAPv1FailureRewritten ==
    /\ pc = "done"
    /\ retry.hasWriteAspect
    /\ FirstFailed
    /\ calls.execute[1].error.code = MMAPv1_RETRY_WRITES_ERROR_CODE
    /\ RetryableWriteError \in calls.execute[1].error.labels
    /\ SurfacesMMAPv1Error(outcome.error)
    /\ Invocations = 1

\* C7: the rewritten MMAPv1 error has an originalError property holding the
\* first attempt's error, whose code is 20.
RewrittenErrorExposesOriginal ==
    (pc = "done" /\ outcome.status = "rejected" /\ SurfacesMMAPv1Error(outcome.error))
    => /\ Property(outcome.error, "originalError") = calls.execute[1].error.id
       /\ calls.execute[1].error.code = MMAPv1_RETRY_WRITES_ERROR_CODE

-----------------------------------------------------------------------------
(* Properties of the session stage *)

NoInvocationPending ==
    \A i \in DOMAIN calls.execute : calls.execute[i].state # "pending"

\* C8: the implicit session the run created is ended exactly once, after the
\* last invocation, on every path; the outcome of endSession does not change
\* what the caller receives.
ImplicitSessionEndedOnce ==
    /\ calls.endSession <= 1
    /\ calls.endSession = 1 =>
         /\ session.owner = "run"
         /\ pc \in {"ending", "done"}
         /\ NoInvocationPending
    /\ (session.owner = "run" /\ pc = "done") =>
         /\ calls.endSession = 1
         /\ pending.status = "ok" =>
              /\ outcome.status = "resolved"
              /\ outcome.result = ctx.result
              /\ calls.execute[Invocations].state = "fulfilled"
         /\ pending.status = "error" =>
              /\ outcome.status = "rejected"
              /\ outcome.error = pending.error

FailedEndSessionSuppressed ==
    /\ pc = "done"
    /\ session.owner = "run"
    /\ calls.endSession = 1
    /\ ~session.hasEnded
    /\ FirstFailed
    /\ outcome.status = "rejected"
    /\ outcome.error = calls.execute[1].error

\* The session was put on the operation by the caller.
SuppliedSession == session.exists /\ session.owner # "run"

\* C9: a session the caller supplied is never ended by the pipeline.
SuppliedSessionNeverEnded ==
    SuppliedSession => calls.endSession = 0 /\ pc # "ending"

ExplicitSessionSurvivesFailure ==
    /\ pc = "done"
    /\ SuppliedSession
    /\ session.explicit
    /\ ~session.hasEnded
    /\ FirstFailed
    /\ outcome.status = "rejected"
    /\ calls.endSession = 0

\* The run failed before the session stage looked at the session.
FailedBeforeBinding ==
    outcome.error.class \in {"MongoNotConnectedError", "MongoServerSelectionError"}

\* C10 as stated: with a supplied session that has ended, a run that gets to
\* session binding fails with MongoExpiredSessionError whatever the topology's
\* session support, without server selection or invocation.
EndedSessionAlwaysExpiredError ==
    (SuppliedSession /\ session.hasEnded) =>
        /\ calls.execute = <<>>
        /\ (pc = "done" /\ ~FailedBeforeBinding) =>
             /\ outcome.status = "rejected"
             /\ outcome.error.class = "MongoExpiredSessionError"
             /\ calls.select = <<>>

\* C10, amended: on a topology with session support the binding fails with
\* MongoExpiredSessionError; without session support an explicit session fails
\* with MongoCompatibilityError and a non-explicit one is dropped; in every
\* case the ended session is never passed to executeAsync, and whenever the run
\* is rejected by the binding no server was selected and nothing invoked.
EndedSessionNeverUsed ==
    (SuppliedSession /\ session.hasEnded) =>
        /\ \A i \in DOMAIN calls.execute :
             ~calls.execute[i].session /\ ~calls.execute[i].hasEnded
        /\ ~ctx.session
        /\ (topology.sessionSupport \/ session.explicit) =>
             /\ calls.select = <<>>
             /\ calls.execute = <<>>
             /\ pc \notin {"withServer", "selecting", "withRetryability", "executing",
                           "reselecting", "retrying", "cleanup", "ending"}
             /\ (pc = "done" /\ ~FailedBeforeBinding) =>
                  /\ outcome.status = "rejected"
                  /\ outcome.error.class =
                       (IF topology.sessionSupport THEN "MongoExpiredSessionError"
                        ELSE "MongoCompatibilityError")

EndedSessionRejected ==
    /\ pc = "done"
    /\ SuppliedSession
    /\ session.hasEnded
    /\ topology.sessionSupport
    /\ outcome.status = "rejected"
    /\ outcome.error.class = "MongoExpiredSessionError"

-----------------------------------------------------------------------------
(* Properties of the session stage *)

\* The binding of lines 80-116 takes its step on a session that stays bound
\* and is in an active transaction.
BindsActiveTransaction ==
    /\ pc = "bind"
    /\ operation.session
    /\ session.txn = "active"
    /\ topology.sessionSupport \/ session.explicit

\* The step rejects the run with MongoTransactionError and does nothing else.
RejectsWithTransactionError ==
    /\ pc' = "done"
    /\ outcome'.status = "rejected"
    /\ outcome'.error.class = "MongoTransactionError"
    /\ calls' = calls
    /\ session'.txnNumber = session.txnNumber

\* The session checks of lines 86-107 threw: the session was not bound.
RejectsSession ==
    /\ pc' = "done"
    /\ outcome'.status = "rejected"
    /\ outcome'.error.class \in {"MongoCompatibilityError", "MongoExpiredSessionError"}

\* C11: when the bound session is in an active transaction, the binding lets
\* the run go on only with the read preference primary (explicit, or the
\* default); with any other read preference the run is rejected with
\* MongoTransactionError.  A run rejected with MongoTransactionError has
\* selected no server for the operation, has not advanced the transaction
\* number and has not invoked executeAsync.
TransactionRequiresPrimary ==
    /\ [][BindsActiveTransaction =>
             \/ RejectsWithTransactionError
             \/ RejectsSession
             \/ pc' = "withServer" /\ ctx'.readPreference = "primary"]_vars
    /\ [](outcome.error.class = "MongoTransactionError" =>
             /\ pc = "done"
             /\ session.txn = "active"
             /\ calls.select = <<>>
             /\ calls.execute = <<>>
             /\ calls.increment = 0
             /\ session.txnNumber = 0)

TransactionErrorBeforeSelection ==
    /\ pc = "done"
    /\ session.txn = "active"
    /\ outcome.status = "rejected"
    /\ outcome.error.class = "MongoTransactionError"
    /\ calls.select = <<>>
    /\ calls.execute = <<>>
    /\ session.txnNumber = 0

\* withSession filled the context (lines 122-125): the binding threw nothing.
Bound == ctx.readPreference # "none"

\* C12: on a topology without session support an operation carrying an
\* explicit session is rejected with MongoCompatibilityError, with no server
\* selected for it and no invocation; an operation carrying a non-explicit
\* session loses it (operation.session and operation.options.session are
\* cleared, the context holds no session), goes through one server selection
\* made without a session, is invoked at most once, without a session, and a
\* failure of that invocation is surfaced as it is: no retry, no transaction
\* number advanced, no session ended.
SessionlessTopologyBinding ==
    (~topology.sessionSupport /\ SuppliedSession) =>
        IF session.explicit
        THEN /\ calls.select = <<>>
             /\ calls.execute = <<>>
             /\ ~Bound
             /\ (pc = "done" /\ ~FailedBeforeBinding) =>
                  /\ outcome.status = "rejected"
                  /\ outcome.error.class = "MongoCompatibilityError"
                  /\ outcome.error.message = "Current topology does not support sessions"
        ELSE /\ Bound => ~operation.session /\ ~operation.optionsSession /\ ~ctx.session
             /\ (pc = "done" /\ ~FailedBeforeBinding) => Bound /\ Len(calls.select) = 1
             /\ Len(calls.select) <= 1
             /\ \A i \in DOMAIN calls.select :
                  ~calls.select[i].session /\ calls.select[i].by = "withServer"
             /\ Len(calls.execute) <= 1
             /\ \A i \in DOMAIN calls.execute : ~calls.execute[i].session
             /\ retry.stage \in {"none", "passthrough"}
             /\ pc \notin {"reselecting", "retrying", "ending"}
             /\ calls.increment = 0
             /\ calls.endSession = 0
             /\ (pc = "done" /\ FirstFailed) =>
                  /\ outcome.status = "rejected"
                  /\ outcome.error = calls.execute[1].error
             /\ (pc = "done" /\ Invocations = 1 /\ ~FirstFailed) =>
                  outcome.status = "resolved"

ImplicitSessionDroppedAndNotRetried ==
    /\ pc = "done"
    /\ ~topology.sessionSupport
    /\ topology.retryWrites
    /\ SuppliedSession
    /\ ~session.explicit
    /\ ~operation.session
    /\ ~operation.optionsSession
    /\ Len(calls.select) = 1
    /\ Invocations = 1
    /\ ~calls.execute[1].session
    /\ FirstFailed
    /\ IsRetryableWriteError(calls.execute[1].error)
    /\ outcome.error = calls.execute[1].error

-----------------------------------------------------------------------------
(* Cancellation of a run *)

\* C13 as stated: once the caller's signal is aborted while the run is
\* suspended in connect, server selection or invocation, the run's next step
\* gives up the awaited step with the signal's reason: the rejection reaches
\* the caller, directly or through the release of the session.
AbortStopsSuspendedRun ==
    [][(signal.aborted /\ Suspended) =>
          \/ /\ pc' = "done"
             /\ outcome'.status = "rejected"
             /\ outcome'.error.class = signal.reason
          \/ /\ pc' = "cleanup"
             /\ pending'.status = "error"
             /\ pending'.error.class = signal.reason]_vars

-----------------------------------------------------------------------------
(* abortable(promise, { signal }) *)

\* No executeOperation run is in progress.
NoRun ==
    /\ pc = "none"
    /\ client = [topology |-> FALSE, hasBeenClosed |-> FALSE, skipPing |-> FALSE]
    /\ topology = [sessionSupport |-> FALSE, retryReads |-> FALSE, retryWrites |-> FALSE]
    /\ session = NoSession
    /\ operation = [session |-> FALSE, optionsSession |-> FALSE, willRetryWrite |-> FALSE]
    /\ ctx = NoContext
    /\ retry = NoRetryLocals
    /\ pending = [status |-> "none", error |-> NoError]
    /\ outcome = [status |-> "pending", result |-> "none", error |-> NoError]
    /\ calls = NoCalls

\* A promise: pending, or settled with a value or an error
Pending == [state |-> "pending", value |-> "none"]
Settlements ==
    [state : {"fulfilled"}, value : {"value1", "value2"}]
        \cup [state : {"rejected"}, value : {"error1", "error2"}]

\* signal.reason of an aborted signal: abort() and AbortSignal.timeout()
Reasons == {"AbortError", "TimeoutError"}

\* The locals of a call of abortable.  aborted is the promise made by
\* promiseWithResolvers, listener the 'abort' listener, subscribed the reaction
\* put on the given promise while it is pending, jobs the queue of promise
\* reaction jobs, awaited the promise the function awaits, result the promise
\* the function returned.  order is the order in which the promise settled
\* ("promise"), the signal aborted ("signal") and abortable was called ("call").
NotCalled ==
    [pc |-> "notCalled", aborted |-> "none", listener |-> FALSE, subscribed |-> FALSE,
     jobs |-> <<>>, awaited |-> Pending, result |-> Pending, order |-> <<>>]

AbortableInit ==
    /\ NoRun
    /\ signal \in {NoSignal, IdleSignal}
    /\ promise = Pending
    /\ race = NotCalled
    /\ pool = Unused
    /\ list = Unused
    /\ machine = Unused
    /\ address = Unused
    /\ iterator = Unused
    /\ disposable = Unused
    /\ fleet = Unused

\* Promise.race([aborted, promise]): the abort promise is subscribed first
RaceOrderAbortFirst == <<"aborted", "promise">>

\* Promise.race([promise, aborted]) subscribes to its members in this order;
\* a member already settled gets its reaction job queued at once.
RaceOrder == <<"promise", "aborted">>

\* The members of the race that are settled when Promise.race subscribes
SettledMember(member, abortedState) ==
    IF member = "promise" THEN promise.state # "pending" ELSE abortedState = "rejected"

\* The call, up to its await.
Abortable ==
    /\ race.pc = "notCalled"
    /\ IF ~signal.given
       THEN \* return await promise
            race' = [race EXCEPT !.pc = "awaiting",
                                 !.subscribed = promise.state = "pending",
                                 !.jobs = IF promise.state = "pending" THEN <<>>
                                          ELSE <<"promise">>,
                                 !.order = Append(@, "call")]
       ELSE LET abortedState == IF signal.aborted THEN "rejected" ELSE "pending"
                IsSettled(member) == SettledMember(member, abortedState)
            IN race' = [race EXCEPT !.pc = "awaiting",
                                    !.aborted = abortedState,
                                    !.listener = ~signal.aborted,
                                    !.subscribed = promise.state = "pending",
                                    !.jobs = SelectSeq(RaceOrder, IsSettled),
                                    !.order = Append(@, "call")]
    /\ UNCHANGED <<runVars, signal, promise, pool, list, machine, address, iterator, disposable, fleet>>

\* The given promise settles; a reaction subscribed to it is queued.
PromiseSettles ==
    /\ promise.state = "pending"
    /\ promise' \in Settlements
    /\ race' = [race EXCEPT !.jobs = IF race.subscribed THEN Append(@, "promise") ELSE @,
                            !.subscribed = FALSE,
                            !.order = Append(@, "promise")]
    /\ UNCHANGED <<runVars, signal, pool, list, machine, address, iterator, disposable, fleet>>

\* The signal aborts; the listener, if still attached, rejects the abort
\* promise with this.reason ({ once: true } removes the listener).
SignalAborts ==
    /\ signal.given
    /\ ~signal.aborted
    /\ \E reason \in Reasons :
         signal' = [signal EXCEPT !.aborted = TRUE, !.reason = reason]
    /\ race' = [race EXCEPT !.aborted = IF race.listener THEN "rejected" ELSE @,
                            !.jobs = IF race.listener THEN Append(@, "aborted") ELSE @,
                            !.listener = FALSE,
                            !.order = Append(@, "signal")]
    /\ UNCHANGED <<runVars, promise, pool, list, machine, address, iterator, disposable, fleet>>

\* The settlement a reaction job hands on: the promise's, or the rejection of
\* the abort promise with the signal's reason
Handed(job) ==
    IF job = "promise" THEN promise ELSE [state |-> "rejected", value |-> signal.reason]

\* The first reaction job of the queue runs: it settles the awaited promise
\* (the race, or the given promise) unless that is settled already.
RunJob ==
    /\ race.jobs # <<>>
    /\ race' = [race EXCEPT !.jobs = Tail(@),
                            !.awaited = IF @.state = "pending"
                                        THEN Handed(Head(race.jobs)) ELSE @]
    /\ UNCHANGED <<runVars, signal, promise, pool, list, machine, address, iterator, disposable, fleet>>

\* The await returns or throws: the finally block disposes the listener and
\* the function's promise settles as the awaited one did.
Resume ==
    /\ race.pc = "awaiting"
    /\ race.awaited.state # "pending"
    /\ race' = [race EXCEPT !.pc = "done", !.listener = FALSE, !.result = race.awaited]
    /\ UNCHANGED <<runVars, signal, promise, pool, list, machine, address, iterator, disposable, fleet>>

AbortableNext ==
    \/ Abortable
    \/ PromiseSettles
    \/ SignalAborts
    \/ RunJob
    \/ Resume

AbortableSpec == AbortableInit /\ [][AbortableNext]_vars

\* The place of an event in race.order, 0 when it has not happened
Position(event) ==
    IF \E i \in DOMAIN race.order : race.order[i] = event
    THEN CHOOSE i \in DOMAIN race.order : race.order[i] = event
    ELSE 0

\* Event a happened, and before event b if b happened at all
Before(a, b) == Position(a) > 0 /\ (Position(b) = 0 \/ Position(a) < Position(b))

AbortReason == [state |-> "rejected", value |-> signal.reason]

\* C14: the outcome of abortable is the promise's outcome when no signal is
\* given, when the promise had settled before the call (even with the signal
\* aborted already), or when it settled before the signal aborted; it is a
\* rejection with signal.reason when the signal aborted (before the call or
\* after it) while the promise was still pending.  The call does not stay
\* suspended once the promise has settled or the signal has aborted, and an
\* outcome once delivered never changes.
AbortableOutcome ==
    /\ [](race.result.state # "pending" =>
            IF ~signal.given THEN race.result = promise
            ELSE IF Before("promise", "call") THEN race.result = promise
            ELSE IF Before("signal", "promise") THEN race.result = AbortReason
            ELSE race.result = promise /\ promise.state # "pending")
    /\ []((race.pc = "awaiting" /\ race.jobs = <<>> /\ race.awaited.state = "pending") =>
            /\ promise.state = "pending"
            /\ ~signal.aborted)
    /\ [][race.result.state # "pending" => race'.result = race.result]_vars

SettledPromiseBeatsAbortedSignal ==
    /\ race.pc = "done"
    /\ race.order = <<"signal", "promise", "call">>
    /\ signal.aborted
    /\ promise.state = "rejected"
    /\ race.result = promise

-----------------------------------------------------------------------------
(* BufferPool *)

\* Bounds: bytes appended to a pool over its life, chunks it holds at a time
MaxBytes == 5
MaxChunks == 3

\* Byte values: a small one, and one with the sign bit set
ByteValues == {1, 255}

\* Buffers of a given length
BuffersOfLength(n) == [1 .. n -> ByteValues]

\* What a method returned
Nothing == [kind |-> "none", bytes |-> <<>>, value |-> 0]
Null == [kind |-> "null", bytes |-> <<>>, value |-> 0]
Thrown == [kind |-> "MongoInvalidArgumentError", bytes |-> <<>>, value |-> 0]
OfBuffer(bytes) == [kind |-> "buffer", bytes |-> bytes, value |-> 0]
OfNumber(value) == [kind |-> "number", bytes |-> <<>>, value |-> value]

\* new BufferPool().  buffers is the List of chunks, head first.  appended and
\* taken are the bytes append was given and the bytes read handed out so far;
\* last is the latest call: its argument, the number of chunks it found and
\* what it returned.
NewBufferPool ==
    [buffers |-> <<>>, totalByteLength |-> 0, appended |-> <<>>, taken |-> <<>>,
     last |-> [op |-> "new", size |-> 0, held |-> 0, returned |-> Nothing]]

BufferPoolInit ==
    /\ NoRun
    /\ signal = NoSignal
    /\ promise = Unused
    /\ race = Unused
    /\ pool = NewBufferPool
    /\ list = Unused
    /\ machine = Unused
    /\ address = Unused
    /\ iterator = Unused
    /\ disposable = Unused
    /\ fleet = Unused

\* append(buffer): this.buffers.push(buffer); this.totalByteLength += buffer.length
PoolAppend ==
    /\ Len(pool.buffers) < MaxChunks
    /\ \E n \in 0 .. (MaxBytes - Len(pool.appended)) :
         \E buffer \in BuffersOfLength(n) :
           pool' = [pool EXCEPT !.buffers = Append(@, buffer),
                                !.totalByteLength = @ + Len(buffer),
                                !.appended = @ \o buffer,
                                !.last = [op |-> "append", size |-> Len(buffer),
                                          held |-> Len(pool.buffers),
                                          returned |-> Nothing]]
    /\ UNCHANGED <<runVars, signal, promise, race, list, machine, address, iterator, disposable, fleet>>

Min(a, b) == IF a < b THEN a ELSE b

\* result.set(bytes, offset)
SetBytes(result, bytes, offset) ==
    [i \in 1 .. Len(result) |->
        IF offset < i /\ i <= offset + Len(bytes) THEN bytes[i - offset] ELSE result[i]]

\* A loop that does not put the unread part of a chunk back
RECURSIVE ReadLoopDroppingRemainder(_, _, _, _, _)
ReadLoopDroppingRemainder(buffers, total, size, bytesRead, result) ==
    IF ~(bytesRead < size) \/ buffers = <<>>
    THEN [result |-> result, buffers |-> buffers, totalByteLength |-> total]
    ELSE LET buffer == Head(buffers)
             bytesReadable == Min(size - bytesRead, Len(buffer))
         IN ReadLoopDroppingRemainder(Tail(buffers), total - bytesReadable, size,
                                      bytesRead + bytesReadable,
                                      SetBytes(result, SubSeq(buffer, 1, bytesReadable),
                                               bytesRead))

\* The loop of read, lines 875-891: shift a chunk (null on an empty list ends
\* the loop), copy what is wanted of it, put the rest of it back at the head.
RECURSIVE ReadLoop(_, _, _, _, _)
ReadLoop(buffers, total, size, bytesRead, result) ==
    IF ~(bytesRead < size) \/ buffers = <<>>
    THEN [result |-> result, buffers |-> buffers, totalByteLength |-> total]
    ELSE LET buffer == Head(buffers)
             bytesRemaining == size - bytesRead
             bytesReadable == Min(bytesRemaining, Len(buffer))
             bytes == SubSeq(buffer, 1, bytesReadable)
             rest == IF bytesReadable < Len(buffer)
                     THEN <<SubSeq(buffer, bytesReadable + 1, Len(buffer))>> \o Tail(buffers)
                     ELSE Tail(buffers)
         IN ReadLoop(rest, total - bytesReadable, size, bytesRead + bytesReadable,
                     SetBytes(result, bytes, bytesRead))

\* A read that takes any number for a size
InvalidSizeNever(size) == FALSE

\* typeof size !== 'number' || size < 0, for the numbers a caller passes
InvalidSize(size) == size < 0

\* read(size) on a pool holding buffers and totalByteLength.  unsafe is what
\* the memory Buffer.allocUnsafe hands out holds before it is written.
ReadOf(buffers, total, size, unsafe) ==
    IF InvalidSize(size)
    THEN [returned |-> Thrown, buffers |-> buffers, totalByteLength |-> total]
    ELSE IF size > total
    THEN [returned |-> OfBuffer(<<>>), buffers |-> buffers, totalByteLength |-> total]
    ELSE LET done == ReadLoop(buffers, total, size, 0,
                              [i \in 1 .. (IF size > 0 THEN size ELSE 0) |-> unsafe])
         IN [returned |-> OfBuffer(done.result), buffers |-> done.buffers,
             totalByteLength |-> done.totalByteLength]

\* The sizes a caller asks for of a pool of a length: negative, zero,
\* available and oversized
Sizes(length) == (0 - 1) .. (length + 1)

RECURSIVE SumOfLengths(_)
SumOfLengths(buffers) ==
    IF buffers = <<>> THEN 0 ELSE Len(Head(buffers)) + SumOfLengths(Tail(buffers))

\* What a byte of Buffer.allocUnsafe(size) can hold when the loop ends without
\* writing it: any value.  When the chunks hold size bytes every byte is
\* written and the memory's content never shows.
Unwritten(buffers, size) ==
    IF SumOfLengths(buffers) < size THEN ByteValues ELSE {0}

PoolRead ==
    /\ \E size \in Sizes(pool.totalByteLength) :
       \E unsafe \in Unwritten(pool.buffers, size) :
         LET r == ReadOf(pool.buffers, pool.totalByteLength, size, unsafe)
         IN pool' = [pool EXCEPT !.buffers = r.buffers,
                                 !.totalByteLength = r.totalByteLength,
                                 !.taken = @ \o r.returned.bytes,
                                 !.last = [op |-> "read", size |-> size,
                                           held |-> Len(pool.buffers),
                                           returned |-> r.returned]]
    /\ UNCHANGED <<runVars, signal, promise, race, list, machine, address, iterator, disposable, fleet>>

\* last << 24 on a byte: the 32-bit result is signed
ShiftLeft24(byte) ==
    IF byte >= 128 THEN (byte - 256) * 16777216 ELSE byte * 16777216

\* The same four bytes read most significant byte first
ReadInt32BE(buffer) ==
    ShiftLeft24(buffer[1]) + buffer[2] * 65536 + buffer[3] * 256 + buffer[4]

\* buffer.readInt32LE(0), on a buffer of 4 bytes or more:
\* first + this[1] * 2 ** 8 + this[2] * 2 ** 16 + (last << 24)
ReadInt32LE(buffer) ==
    buffer[1] + buffer[2] * 256 + buffer[3] * 65536 + ShiftLeft24(buffer[4])

\* The bytes are put back at the head, the length is left as read left it
PutBackForgettingLength(p, top4Bytes) ==
    [buffers |-> <<top4Bytes>> \o p.buffers, totalByteLength |-> p.totalByteLength]

\* this.totalByteLength += 4; this.buffers.unshift(top4Bytes)
PutBack(p, top4Bytes) ==
    [buffers |-> <<top4Bytes>> \o p.buffers, totalByteLength |-> p.totalByteLength + 4]

\* getInt32() on a pool holding buffers and totalByteLength.  firstBuffer is
\* this.buffers.first(): null on an empty list.
GetInt32Of(buffers, total, unsafe) ==
    IF total < 4
    THEN [returned |-> Null, buffers |-> buffers, totalByteLength |-> total]
    ELSE IF buffers # <<>> /\ Len(Head(buffers)) >= 4
    THEN [returned |-> OfNumber(ReadInt32LE(Head(buffers))), buffers |-> buffers,
          totalByteLength |-> total]
    ELSE LET r == ReadOf(buffers, total, 4, unsafe)
             top4Bytes == r.returned.bytes
             back == PutBack(r, top4Bytes)
         IN IF Len(top4Bytes) < 4
            THEN \* readInt32LE throws ERR_OUT_OF_RANGE before anything is put back
                 [returned |-> [kind |-> "RangeError", bytes |-> <<>>, value |-> 0],
                  buffers |-> r.buffers, totalByteLength |-> r.totalByteLength]
            ELSE [returned |-> OfNumber(ReadInt32LE(top4Bytes)),
                  buffers |-> back.buffers, totalByteLength |-> back.totalByteLength]

PoolGetInt32 ==
    /\ \E unsafe \in Unwritten(pool.buffers, 4) :
         LET r == GetInt32Of(pool.buffers, pool.totalByteLength, unsafe)
         IN pool' = [pool EXCEPT !.buffers = r.buffers,
                                 !.totalByteLength = r.totalByteLength,
                                 !.last = [op |-> "getInt32", size |-> 0,
                                           held |-> Len(pool.buffers),
                                           returned |-> r.returned]]
    /\ UNCHANGED <<runVars, signal, promise, race, list, machine, address, iterator, disposable, fleet>>

BufferPoolNext ==
    \/ PoolAppend
    \/ PoolRead
    \/ PoolGetInt32

BufferPoolSpec == BufferPoolInit /\ [][BufferPoolNext]_vars

\* The bytes a pool holds, in order, whatever the chunks
RECURSIVE Flatten(_)
Flatten(buffers) ==
    IF buffers = <<>> THEN <<>> ELSE Head(buffers) \o Flatten(Tail(buffers))

\* C15: read(n) with n >= 0 on a pool holding at least n bytes returns the
\* first n bytes of the buffered stream, in append order whatever the chunks,
\* and removes exactly those; with n above the buffered length it returns an
\* empty buffer and leaves chunks and length as they were.  So the bytes handed
\* out by the reads so far, followed by the bytes still buffered, are the bytes
\* appended: reads that empty the pool hand out the concatenation of the chunks.
ReadReturnsExactPrefix ==
    /\ [][(pool'.last.op = "read" /\ pool'.last.size >= 0) =>
            LET n == pool'.last.size
                stream == Flatten(pool.buffers)
            IN IF n <= pool.totalByteLength
               THEN /\ pool'.last.returned = OfBuffer(SubSeq(stream, 1, n))
                    /\ Flatten(pool'.buffers) = SubSeq(stream, n + 1, Len(stream))
                    /\ pool'.totalByteLength = pool.totalByteLength - n
               ELSE /\ pool'.last.returned = OfBuffer(<<>>)
                    /\ pool'.buffers = pool.buffers
                    /\ pool'.totalByteLength = pool.totalByteLength]_vars
    /\ [](pool.appended = pool.taken \o Flatten(pool.buffers))

\* Two chunks were read in two reads that cut the stream elsewhere.
TwoReadsReconstructStream ==
    /\ pool.last.op = "read"
    /\ pool.last.size = 2
    /\ pool.last.held = 1
    /\ pool.last.returned.bytes = <<1, 255>>
    /\ pool.taken = <<1, 255, 255, 1, 255>>
    /\ pool.appended = pool.taken
    /\ pool.buffers = <<>>
    /\ pool.totalByteLength = 0

\* C16: the length of a pool is the sum of the lengths of its chunks, and is
\* never negative.
LengthIsSumOfChunks ==
    /\ pool.totalByteLength = SumOfLengths(pool.buffers)
    /\ pool.totalByteLength >= 0

\* getInt32 found its 4 bytes spread over three chunks, one of them empty, and
\* put them back as one.
SplitPrefixPutBack ==
    /\ pool.last.op = "getInt32"
    /\ pool.last.held = 3
    /\ pool.last.returned.kind = "number"
    /\ Len(pool.buffers) = 2
    /\ Len(pool.buffers[1]) = 4
    /\ pool.totalByteLength = 5

\* C17: read with a negative size throws MongoInvalidArgumentError and leaves
\* chunks and length as they were.
NegativeReadThrows ==
    [][(pool'.last.op = "read" /\ pool'.last.size < 0) =>
          /\ pool'.last.returned = Thrown
          /\ pool'.buffers = pool.buffers
          /\ pool'.totalByteLength = pool.totalByteLength
          /\ pool'.taken = pool.taken]_vars

NegativeReadOnFilledPool ==
    /\ pool.last.op = "read"
    /\ pool.last.size < 0
    /\ pool.last.returned.kind = "MongoInvalidArgumentError"
    /\ pool.totalByteLength > 0
    /\ Len(pool.buffers) > 1

\* value is the signed 32-bit number whose two's-complement bytes, least
\* significant first, are the four bytes
IsInt32LEOf(value, bytes) ==
    /\ value % 256 = bytes[1]
    /\ (value \div 256) % 256 = bytes[2]
    /\ (value \div 65536) % 256 = bytes[3]
    /\ (value \div 16777216) % 256 = bytes[4]

\* C18: getInt32 returns null with fewer than 4 bytes buffered, otherwise the
\* little-endian signed 32-bit value of the first 4 buffered bytes however they
\* lie in the chunks; the length and the buffered byte stream stay as they
\* were.
GetInt32Peeks ==
    [][pool'.last.op = "getInt32" =>
          LET stream == Flatten(pool.buffers)
          IN /\ IF pool.totalByteLength < 4
                THEN pool'.last.returned = Null
                ELSE /\ pool'.last.returned.kind = "number"
                     /\ IsInt32LEOf(pool'.last.returned.value, SubSeq(stream, 1, 4))
             /\ pool'.totalByteLength = pool.totalByteLength
             /\ Flatten(pool'.buffers) = stream
             /\ pool'.taken = pool.taken]_vars

\* A negative length prefix that lay in two chunks
NegativeSplitPrefixPeeked ==
    /\ pool.last.op = "getInt32"
    /\ pool.last.held = 2
    /\ pool.last.returned.kind = "number"
    /\ pool.last.returned.value < 0
    /\ pool.buffers = <<<<1, 255, 1, 255>>>>
    /\ pool.totalByteLength = 4

-----------------------------------------------------------------------------
(* List *)

\* Bound: the nodes a list holds at a time
MaxLen == 3

\* The values put in a list
Values == {"a", "b"}

\* The head node; the other nodes are numbered from 1 as they are made
HeadNode == 0

\* new List(): count 0 and a head node that is its own next and prev.  nodes
\* maps the head and every node linked into the list to its next, prev and
\* value; last is the latest call: the values or the filter it was given, the
\* count it found, and what it returned.
NewList ==
    [count |-> 0,
     nodes |-> (HeadNode :> [next |-> HeadNode, prev |-> HeadNode, value |-> "null"]),
     last |-> [op |-> "new", arg |-> <<>>, filter |-> {}, held |-> 0,
               returned |-> "none"]]

ListInit ==
    /\ NoRun
    /\ signal = NoSignal
    /\ promise = Unused
    /\ race = Unused
    /\ pool = Unused
    /\ list = NewList
    /\ machine = Unused
    /\ address = Unused
    /\ iterator = Unused
    /\ disposable = Unused
    /\ fleet = Unused

\* The object literal of a new node: an identity no node of the list has
NewNode(l) ==
    CHOOSE id \in 1 .. Cardinality(DOMAIN l.nodes) : id \notin DOMAIN l.nodes

\* A push that links the new node in after the head
PushAtHead(l, value) ==
    LET newNode == NewNode(l)
        first == l.nodes[HeadNode].next
        linked == (newNode :> [next |-> first, prev |-> HeadNode, value |-> value])
                     @@ l.nodes
        headNext == [linked EXCEPT ![first].prev = newNode]
    IN [l EXCEPT !.count = @ + 1,
                 !.nodes = [headNext EXCEPT ![HeadNode].next = newNode]]

\* push(value): the new node goes between head.prev and head
Push(l, value) ==
    LET newNode == NewNode(l)
        tail == l.nodes[HeadNode].prev
        linked == (newNode :> [next |-> HeadNode, prev |-> tail, value |-> value])
                     @@ l.nodes
        tailNext == [linked EXCEPT ![tail].next = newNode]
    IN [l EXCEPT !.count = @ + 1,
                 !.nodes = [tailNext EXCEPT ![HeadNode].prev = newNode]]

\* pushMany(iterable): push every value in turn
RECURSIVE PushMany(_, _)
PushMany(l, values) ==
    IF values = <<>> THEN l ELSE PushMany(Push(l, Head(values)), Tail(values))

\* unshift(value): the new node goes between head and head.next
Unshift(l, value) ==
    LET newNode == NewNode(l)
        first == l.nodes[HeadNode].next
        linked == (newNode :> [next |-> first, prev |-> HeadNode, value |-> value])
                     @@ l.nodes
        firstPrev == [linked EXCEPT ![first].prev = newNode]
    IN [l EXCEPT !.count = @ + 1,
                 !.nodes = [firstPrev EXCEPT ![HeadNode].next = newNode]]

\* A node no link of the list leads to any more is dropped from nodes.
Unlinked(nodes, node) ==
    IF \E n \in DOMAIN nodes \ {node} : nodes[n].next = node \/ nodes[n].prev = node
    THEN nodes
    ELSE [n \in DOMAIN nodes \ {node} |-> nodes[n]]

\* A remove that forgets nextNode.prev = prevNode
RemoveWithoutPrevLink(l, node) ==
    IF node = HeadNode \/ l.count = 0
    THEN [list |-> l, returned |-> "null"]
    ELSE LET prevNode == l.nodes[node].prev
             nodes == [l.nodes EXCEPT ![prevNode].next = l.nodes[node].next]
         IN [list |-> [l EXCEPT !.count = @ - 1, !.nodes = Unlinked(nodes, node)],
             returned |-> l.nodes[node].value]

\* remove(node): null for the head or an empty list; otherwise the node's
\* neighbours are linked to each other and its value is returned
Remove(l, node) ==
    IF node = HeadNode \/ l.count = 0
    THEN [list |-> l, returned |-> "null"]
    ELSE LET prevNode == l.nodes[node].prev
             nextNode == l.nodes[node].next
             prevNext == [l.nodes EXCEPT ![prevNode].next = nextNode]
             nextPrev == [prevNext EXCEPT ![nextNode].prev = prevNode]
         IN [list |-> [l EXCEPT !.count = @ - 1, !.nodes = Unlinked(nextPrev, node)],
             returned |-> l.nodes[node].value]

\* shift() and pop()
Shift(l) == Remove(l, l.nodes[HeadNode].next)
Pop(l) == Remove(l, l.nodes[HeadNode].prev)

\* A prune that looks at the first node only
PruneFirstNodeOnly(l, ptr, filter) ==
    IF ptr = HeadNode THEN l
    ELSE IF l.nodes[ptr].value \in filter THEN Remove(l, ptr).list ELSE l

\* prune(filter), from the node ptr on: nodes() reads ptr.next before it
\* yields ptr, and the node is removed when filter(node.value) holds.  The
\* filter is given by the values it holds for.
RECURSIVE Prune(_, _, _)
Prune(l, ptr, filter) ==
    IF ptr = HeadNode THEN l
    ELSE LET next == l.nodes[ptr].next
         IN Prune(IF l.nodes[ptr].value \in filter THEN Remove(l, ptr).list ELSE l,
                  next, filter)

\* clear(): count 0, head linked to itself
Clear(l) ==
    [l EXCEPT !.count = 0,
              !.nodes = (HeadNode :> [next |-> HeadNode, prev |-> HeadNode,
                                      value |-> "null"])]

Called(l, op, arg, filter, returned) ==
    [l EXCEPT !.last = [op |-> op, arg |-> arg, filter |-> filter, held |-> list.count,
                        returned |-> returned]]

ListPush ==
    /\ list.count < MaxLen
    /\ \E value \in Values : list' = Called(Push(list, value), "push", <<value>>, {}, "none")
    /\ UNCHANGED <<runVars, signal, promise, race, pool, machine, address, iterator, disposable, fleet>>

ListPushMany ==
    /\ \E n \in 0 .. (MaxLen - list.count) :
         \E values \in [1 .. n -> Values] :
           list' = Called(PushMany(list, values), "pushMany", values, {}, "none")
    /\ UNCHANGED <<runVars, signal, promise, race, pool, machine, address, iterator, disposable, fleet>>

ListUnshift ==
    /\ list.count < MaxLen
    /\ \E value \in Values :
         list' = Called(Unshift(list, value), "unshift", <<value>>, {}, "none")
    /\ UNCHANGED <<runVars, signal, promise, race, pool, machine, address, iterator, disposable, fleet>>

ListShift ==
    /\ list' = Called(Shift(list).list, "shift", <<>>, {}, Shift(list).returned)
    /\ UNCHANGED <<runVars, signal, promise, race, pool, machine, address, iterator, disposable, fleet>>

ListPop ==
    /\ list' = Called(Pop(list).list, "pop", <<>>, {}, Pop(list).returned)
    /\ UNCHANGED <<runVars, signal, promise, race, pool, machine, address, iterator, disposable, fleet>>

ListPrune ==
    /\ \E filter \in SUBSET Values :
         list' = Called(Prune(list, list.nodes[HeadNode].next, filter), "prune",
                        <<>>, filter, "none")
    /\ UNCHANGED <<runVars, signal, promise, race, pool, machine, address, iterator, disposable, fleet>>

ListClear ==
    /\ list' = Called(Clear(list), "clear", <<>>, {}, "none")
    /\ UNCHANGED <<runVars, signal, promise, race, pool, machine, address, iterator, disposable, fleet>>

ListNext ==
    \/ ListPush
    \/ ListPushMany
    \/ ListUnshift
    \/ ListShift
    \/ ListPop
    \/ ListPrune
    \/ ListClear

ListSpec == ListInit /\ [][ListNext]_vars

\* The nodes met from a node on by following next or prev, up to the head
RECURSIVE Walk(_, _, _, _)
Walk(nodes, link, node, most) ==
    IF node = HeadNode \/ most = 0 THEN <<>>
    ELSE <<node>> \o Walk(nodes, link, nodes[node][link], most - 1)

\* The node reached from a node in a number of steps
RECURSIVE After(_, _, _, _)
After(nodes, link, node, steps) ==
    IF steps = 0 THEN node ELSE After(nodes, link, nodes[node][link], steps - 1)

NextWalk(l) == Walk(l.nodes, "next", l.nodes[HeadNode].next, Cardinality(DOMAIN l.nodes))
PrevWalk(l) == Walk(l.nodes, "prev", l.nodes[HeadNode].prev, Cardinality(DOMAIN l.nodes))

Reverse(s) == [i \in 1 .. Len(s) |-> s[Len(s) + 1 - i]]

\* The values of a list from its head on
ValuesOf(l) == [i \in 1 .. Len(NextWalk(l)) |-> l.nodes[NextWalk(l)[i]].value]

\* C19: after any calls of push, pushMany, unshift, pop, shift, prune and
\* clear the list is a circle: following next from the head visits length
\* nodes, all different, and is back at the head with the next step; following
\* prev visits the same nodes in the reverse order and is back at the head as
\* well; the length is 0 exactly when the head is its own next and prev.
WellFormedCircle ==
    LET forward == NextWalk(list)
        backward == PrevWalk(list)
    IN /\ list.count >= 0
       /\ Len(forward) = list.count
       /\ Cardinality({forward[i] : i \in DOMAIN forward}) = list.count
       /\ After(list.nodes, "next", HeadNode, list.count + 1) = HeadNode
       /\ Len(backward) = list.count
       /\ After(list.nodes, "prev", HeadNode, list.count + 1) = HeadNode
       /\ backward = Reverse(forward)
       /\ list.count = 0 <=>
            /\ list.nodes[HeadNode].next = HeadNode
            /\ list.nodes[HeadNode].prev = HeadNode

\* prune took the first and the last of three nodes out.
PrunedAroundMiddle ==
    /\ list.last.op = "prune"
    /\ list.last.filter = {"a"}
    /\ list.last.held = 3
    /\ list.count = 1
    /\ ValuesOf(list) = <<"b">>

\* C20: push adds its value after the last one, unshift before the first one;
\* shift takes out and returns the first value, pop the last one; on an empty
\* list shift and pop return null and the length stays 0.  The length goes up
\* by one with every value put in and down by one with every value taken out,
\* and is the number of values held.
DoubleEndedSequence ==
    /\ [][LET before == ValuesOf(list)
              after == ValuesOf(list')
              op == list'.last.op
              arg == list'.last.arg
              returned == list'.last.returned
          IN /\ op = "push" =>
                  after = Append(before, arg[1]) /\ list'.count = list.count + 1
             /\ op = "unshift" =>
                  after = <<arg[1]>> \o before /\ list'.count = list.count + 1
             /\ op = "shift" =>
                  IF list.count = 0
                  THEN returned = "null" /\ after = <<>> /\ list'.count = 0
                  ELSE /\ returned = Head(before)
                       /\ after = Tail(before)
                       /\ list'.count = list.count - 1
             /\ op = "pop" =>
                  IF list.count = 0
                  THEN returned = "null" /\ after = <<>> /\ list'.count = 0
                  ELSE /\ returned = before[Len(before)]
                       /\ after = SubSeq(before, 1, Len(before) - 1)
                       /\ list'.count = list.count - 1]_vars
    /\ [](list.count = Len(ValuesOf(list)))

\* Of two values the one put in first is shifted first.
FirstInFirstOut ==
    /\ list.last.op = "shift"
    /\ list.last.held = 2
    /\ list.last.returned = "a"
    /\ ValuesOf(list) = <<"b">>

\* ---------------------------------------------------------------------------
\* makeStateMachine: the state-transition guard
\* ---------------------------------------------------------------------------

\* The most calls of stateTransition in one run, and the deepest nesting of a
\* call made by a stateChanged listener inside another call's notification
MaxCalls == 3
MaxDepth == 2

States == {"A", "B", "C"}

\* State tables: the one with no entry for state C, and the same one with an
\* entry for C that allows nothing
TableWithoutC == [A |-> <<"B">>, B |-> <<"A", "C">>]
TableWithC == [A |-> <<"B">>, B |-> <<"A", "C">>, C |-> <<>>]
StateTables == {TableWithoutC, TableWithC}

Undefined == "undefined"

\* What a step of a call threw: nothing, or what a listener threw
NotThrown == [name |-> "none"]
ListenerError == [name |-> "ListenerError"]

\* stateTable[state]: the array of the entry, undefined when there is none
LegalStates(stateTable, state) ==
    IF state \in DOMAIN stateTable THEN stateTable[state] ELSE Undefined

\* Array.prototype.indexOf: the first index of the element, from 0, or -1
IndexOf(array, element) ==
    IF \E i \in 1 .. Len(array) : array[i] = element
    THEN (CHOOSE i \in 1 .. Len(array) :
              /\ array[i] = element
              /\ \A j \in 1 .. (i - 1) : array[j] # element) - 1
    ELSE 0 - 1

\* The arguments of a stateChanged notification, in the order new state first
NotificationNewStateFirst(state, newState) ==
    [previous |-> newState, current |-> state]

\* The arguments of emit('stateChanged', target.s.state, newState)
Notification(state, newState) ==
    [previous |-> state, current |-> newState]

\* The MongoRuntimeError of an illegal transition: its message names the
\* current state, the requested state and the legal states
IllegalTransition(state, newState, legalStates) ==
    [name |-> "MongoRuntimeError", from |-> state, to |-> newState,
     allowed |-> legalStates]

\* A target in one of the states, with the guard made from one of the tables.
\* stack holds the calls whose notification is being delivered, log the
\* notifications emitted, last the latest step of a call.
MachineInit ==
    /\ NoRun
    /\ signal = NoSignal
    /\ promise = Unused
    /\ race = Unused
    /\ pool = Unused
    /\ list = Unused
    /\ address = Unused
    /\ iterator = Unused
    /\ disposable = Unused
    /\ fleet = Unused
    /\ \E stateTable \in StateTables, state \in States :
           machine = [table |-> stateTable, state |-> state, stack |-> <<>>,
                      log |-> <<>>, calls |-> 0,
                      last |-> [op |-> "new", from |-> state, to |-> state,
                                replaced |-> state, error |-> NotThrown]]

\* stateTransition(target, newState) up to the call of emit: the lookup, the
\* check that throws, and the notification, whose listeners run inside emit
\* before the assignment.  A listener may itself call stateTransition.
StateTransition(newState) ==
    /\ machine.calls < MaxCalls
    /\ Len(machine.stack) < MaxDepth
    /\ LET state == machine.state
           legalStates == LegalStates(machine.table, state)
       IN  IF legalStates # Undefined /\ IndexOf(legalStates, newState) < 0
           THEN machine' =
                    [machine EXCEPT
                       !.calls = @ + 1,
                       !.last = [op |-> "thrown", from |-> state, to |-> newState,
                                 replaced |-> state,
                                 error |-> IllegalTransition(state, newState,
                                                             legalStates)]]
           ELSE machine' =
                    [machine EXCEPT
                       !.calls = @ + 1,
                       !.stack = Append(@, [from |-> state, to |-> newState]),
                       !.log = Append(@, Notification(state, newState)),
                       !.last = [op |-> "emitted", from |-> state, to |-> newState,
                                 replaced |-> state, error |-> NotThrown]]
    /\ UNCHANGED <<runVars, signal, promise, race, pool, list, address, iterator, disposable, fleet>>

\* emit returns to the innermost call, which assigns target.s.state
EmitReturns ==
    /\ machine.stack # <<>>
    /\ LET call == machine.stack[Len(machine.stack)]
       IN  machine' =
               [machine EXCEPT
                  !.state = call.to,
                  !.stack = SubSeq(@, 1, Len(@) - 1),
                  !.last = [op |-> "committed", from |-> call.from, to |-> call.to,
                            replaced |-> machine.state, error |-> NotThrown]]
    /\ UNCHANGED <<runVars, signal, promise, race, pool, list, address, iterator, disposable, fleet>>

\* A listener throws: emit throws what the listener threw out of the innermost
\* call, which assigns nothing
EmitThrows ==
    /\ machine.stack # <<>>
    /\ LET call == machine.stack[Len(machine.stack)]
       IN  machine' =
               [machine EXCEPT
                  !.stack = SubSeq(@, 1, Len(@) - 1),
                  !.last = [op |-> "listenerThrew", from |-> call.from,
                            to |-> call.to, replaced |-> machine.state,
                            error |-> ListenerError]]
    /\ UNCHANGED <<runVars, signal, promise, race, pool, list, address, iterator, disposable, fleet>>

MachineNext ==
    \/ \E newState \in States : StateTransition(newState)
    \/ EmitReturns
    \/ EmitThrows

MachineSpec == MachineInit /\ [][MachineNext]_vars

\* The legal set of a state: the states of its entry, none when it has no entry
LegalSet(stateTable, state) ==
    IF state \in DOMAIN stateTable
    THEN {stateTable[state][i] : i \in 1 .. Len(stateTable[state])}
    ELSE {}

\* A step that is a call of stateTransition
IsCall == machine'.calls = machine.calls + 1

\* C21: a call of stateTransition whose requested state is not in the table's
\* legal set for the target's current state fails with a runtime error naming
\* both states and the legal set, leaves target.s.state unchanged and emits no
\* stateChanged notification; only a requested state in the legal set is
\* notified and committed.
IllegalTransitionFails ==
    [][(IsCall /\ machine'.last.to \notin LegalSet(machine.table, machine.state))
         => /\ machine'.last.op = "thrown"
            /\ machine'.last.error.name = "MongoRuntimeError"
            /\ machine'.state = machine.state
            /\ machine'.log = machine.log]_vars

\* A step that is a call of stateTransition for a legal transition
IsLegalCall ==
    /\ IsCall
    /\ machine'.last.to \in LegalSet(machine.table, machine.state)

\* A step in which the innermost call ends, by returning or by throwing
CallEnds == Len(machine'.stack) < Len(machine.stack)

\* The innermost call whose notification is being delivered
InnermostCall == machine.stack[Len(machine.stack)]

\* A legal call emits one notification carrying (previous state, new state)
\* and the state is still the previous one while it is delivered
NotifiesBeforeCommit ==
    IsLegalCall =>
        /\ machine'.last.op = "emitted"
        /\ machine'.log = Append(machine.log,
                                 [previous |-> machine.state,
                                  current |-> machine'.last.to])
        /\ machine'.state = machine.state

\* C22 as stated: on a legal transition stateTransition emits exactly one
\* stateChanged notification carrying (previous state, new state), delivered
\* before target.s.state changes, and after the call target.s.state equals the
\* requested state.
LegalTransitionNotifiesThenCommits ==
    [][/\ NotifiesBeforeCommit
       /\ CallEnds => /\ machine'.state = InnermostCall.to
                      /\ machine'.log = machine.log]_vars

\* C22: on a legal transition stateTransition emits exactly one stateChanged
\* notification carrying (previous state, new state), delivered before
\* target.s.state changes; when the notification returns, the call commits the
\* requested state, and when a listener throws, the call fails with what the
\* listener threw and target.s.state keeps the value it had.
NotifiesThenCommitsUnlessListenerThrows ==
    [][/\ NotifiesBeforeCommit
       /\ CallEnds =>
              /\ machine'.log = machine.log
              /\ machine'.last.op \in {"committed", "listenerThrew"}
              /\ machine'.last.op = "committed"
                     => machine'.state = InnermostCall.to
              /\ machine'.last.op = "listenerThrew"
                     => /\ machine'.state = machine.state
                        /\ machine'.last.error = ListenerError]_vars

\* A legal transition was notified once and then committed
LegalTransitionCommitted ==
    /\ machine.last.op = "committed"
    /\ machine.last.to \in LegalSet(machine.table, machine.last.from)
    /\ machine.state = machine.last.to
    /\ machine.log = <<[previous |-> machine.last.from, current |-> machine.last.to]>>

\* ---------------------------------------------------------------------------
\* HostAddress
\* ---------------------------------------------------------------------------

\* A string is the sequence of its characters.

\* The host parts, the port parts and the socket paths that host strings are
\* put together from
HostTexts ==
    { <<"a">>, <<"A">>, <<"a", "B">>, <<"a", " ", "b">>,
      <<"[", ":", ":", "1", "]">>,
      <<"a", "%", "4", "1">>, <<"a", "%", "2", "5", "4", "1">>, <<"a", "%">>,
      <<"a", ".", "s", "o", "c", "k">>, <<"A", ".", "S", "O", "C", "K">> }
PortTexts ==
    { <<>>, <<":">>, <<":", "2", "7", "0", "1", "7">>, <<":", "0">>,
      <<":", "0", "0">>, <<":", "1">>, <<":", "6", "5", "5", "3", "6">>,
      <<":", "x">> }
SocketPaths == { <<"/", "a", ".", "s", "o", "c", "k">> }
HostStrings == {h \o p : h \in HostTexts, p \in PortTexts} \cup SocketPaths

DefaultPort == 27017
MaxPort == 65535
SockSuffix == <<".", "s", "o", "c", "k">>

\* The value of a field that holds undefined: a text that is no string, and a
\* number that is no port
UndefinedText == <<Undefined>>
UndefinedNumber == 0 - 1

StartsWith(string, prefix) ==
    /\ Len(string) >= Len(prefix)
    /\ SubSeq(string, 1, Len(prefix)) = prefix

EndsWith(string, suffix) ==
    /\ Len(string) >= Len(suffix)
    /\ SubSeq(string, Len(string) - Len(suffix) + 1, Len(string)) = suffix

\* string.substring(start, end), with indexes from 0 and end clipped
Substring(string, start, end) ==
    SubSeq(string, start + 1, IF end > Len(string) THEN Len(string) ELSE end)

\* The index from 1 of the first occurrence of a character, 0 when absent
FirstIndexOf(string, char) ==
    IF \E i \in 1 .. Len(string) : string[i] = char
    THEN CHOOSE i \in 1 .. Len(string) :
             /\ string[i] = char
             /\ \A j \in 1 .. (i - 1) : string[j] # char
    ELSE 0

\* hostString.split(' ').join('%20')
RECURSIVE EscapeSpaces(_)
EscapeSpaces(string) ==
    IF string = <<>> THEN <<>>
    ELSE (IF Head(string) = " " THEN <<"%", "2", "0">> ELSE <<Head(string)>>)
             \o EscapeSpaces(Tail(string))

HexDigits ==
    {"0", "1", "2", "3", "4", "5", "6", "7", "8", "9",
     "a", "b", "c", "d", "e", "f", "A", "B", "C", "D", "E", "F"}

\* The character of an escape, for the escapes the host strings spell
Unescaped(high, low) ==
    CASE <<high, low>> = <<"2", "0">> -> " "
      [] <<high, low>> = <<"2", "5">> -> "%"
      [] <<high, low>> = <<"4", "1">> -> "A"
      [] OTHER -> "other"

\* decodeURIComponent: every %XX becomes its character; a % that is not
\* followed by two hex digits throws URIError
RECURSIVE DecodeURIComponent(_)
DecodeURIComponent(string) ==
    IF string = <<>> THEN [ok |-> TRUE, text |-> <<>>]
    ELSE IF Head(string) = "%"
    THEN IF Len(string) >= 3 /\ string[2] \in HexDigits /\ string[3] \in HexDigits
         THEN LET rest == DecodeURIComponent(SubSeq(string, 4, Len(string)))
              IN  [ok |-> rest.ok,
                   text |-> <<Unescaped(string[2], string[3])>> \o rest.text]
         ELSE [ok |-> FALSE, text |-> <<>>]
    ELSE LET rest == DecodeURIComponent(Tail(string))
         IN  [ok |-> rest.ok, text |-> <<Head(string)>> \o rest.text]

UpperCase ==
    [A |-> "a", B |-> "b", C |-> "c", K |-> "k", O |-> "o", S |-> "s"]

\* String.prototype.toLowerCase
ToLowerCase(string) ==
    [i \in 1 .. Len(string) |->
        IF string[i] \in DOMAIN UpperCase THEN UpperCase[string[i]] ELSE string[i]]

Digits == <<"0", "1", "2", "3", "4", "5", "6", "7", "8", "9">>
IsDigit(char) == \E d \in 1 .. 10 : Digits[d] = char
DigitValue(char) == (CHOOSE d \in 1 .. 10 : Digits[d] = char) - 1

\* Number.parseInt(digits, 10) of a string of decimal digits
RECURSIVE ParseInt(_)
ParseInt(digits) ==
    IF digits = <<>> THEN 0
    ELSE 10 * ParseInt(SubSeq(digits, 1, Len(digits) - 1))
             + DigitValue(digits[Len(digits)])

\* The decimal digits of a number, as `${number}` spells them
RECURSIVE NumberToString(_)
NumberToString(number) ==
    IF number < 10 THEN <<Digits[number + 1]>>
    ELSE NumberToString(number \div 10) \o <<Digits[(number % 10) + 1]>>

\* The IPv6 addresses the host strings spell between brackets, in the form
\* the URL parser serializes them
IPv6Literals == { <<":", ":", "1">> }

\* Characters a URL host may not hold
ForbiddenHostCodePoints == {" ", "[", "]", "<", ">", "^", "|"}

URLFailure == [ok |-> FALSE, hostname |-> <<>>, port |-> <<>>]

\* The port of a URL from what follows the host: nothing or a colon and
\* decimal digits; the number is serialized without leading zeros and is at
\* most 65535
URLWithPort(hostname, rest) ==
    IF rest = <<>> THEN [ok |-> TRUE, hostname |-> hostname, port |-> <<>>]
    ELSE IF Head(rest) # ":" THEN URLFailure
    ELSE LET digits == Tail(rest)
         IN  IF \E i \in 1 .. Len(digits) : ~IsDigit(digits[i]) THEN URLFailure
             ELSE IF digits = <<>>
                  THEN [ok |-> TRUE, hostname |-> hostname, port |-> <<>>]
             ELSE IF Len(digits) > 6 \/ ParseInt(digits) > MaxPort THEN URLFailure
             ELSE [ok |-> TRUE, hostname |-> hostname,
                   port |-> NumberToString(ParseInt(digits))]

\* new URL(`iLoveJS://${escapedHost}`): the hostname and the port of a URL of
\* a scheme that is not special.  The authority ends at the first slash; a
\* host in brackets is an IPv6 address; any other host is kept as written,
\* case and escapes included, and may not be empty before a port.
ParseURL(escapedHost) ==
    LET slash == FirstIndexOf(escapedHost, "/")
        authority == IF slash = 0 THEN escapedHost
                     ELSE SubSeq(escapedHost, 1, slash - 1)
        close == FirstIndexOf(authority, "]")
        colon == FirstIndexOf(authority, ":")
        hostname == IF colon = 0 THEN authority ELSE SubSeq(authority, 1, colon - 1)
    IN  IF StartsWith(authority, <<"[">>)
        THEN IF close = 0 \/ SubSeq(authority, 2, close - 1) \notin IPv6Literals
             THEN URLFailure
             ELSE URLWithPort(SubSeq(authority, 1, close),
                              SubSeq(authority, close + 1, Len(authority)))
        ELSE IF \/ colon = 1
                \/ \E i \in 1 .. Len(hostname) :
                       hostname[i] \in ForbiddenHostCodePoints
             THEN URLFailure
             ELSE URLWithPort(hostname,
                              SubSeq(authority, Len(hostname) + 1, Len(authority)))

\* The fields of a HostAddress before the constructor assigns them
NoHostAddress ==
    [host |-> UndefinedText, port |-> UndefinedNumber,
     socketPath |-> UndefinedText, isIPv6 |-> FALSE]

\* What a call of the constructor gives: what it threw, the instance, and
\* whether the instance is frozen
Threw(name) == [thrown |-> name, instance |-> NoHostAddress, frozen |-> FALSE]
Constructed(instance, frozen) ==
    [thrown |-> "none", instance |-> instance, frozen |-> frozen]

\* A check of the port that rejects nothing
InvalidPortNever(port) == FALSE

\* this.port === 0
InvalidPort(port) == port = 0

\* The constructor after the URL is parsed: the host is decoded, lower-cased
\* and stripped of IPv6 brackets, the port is parsed or defaulted, port zero
\* is rejected, and the instance is frozen
FromURL(url) ==
    LET decoded == DecodeURIComponent(url.hostname)
        lowered == ToLowerCase(decoded.text)
        bracketed == StartsWith(lowered, <<"[">>) /\ EndsWith(lowered, <<"]">>)
        normalized == IF bracketed
                      THEN Substring(lowered, 1, Len(url.hostname) - 1)
                      ELSE lowered
        port == IF url.port # <<>> THEN ParseInt(url.port) ELSE DefaultPort
    IN  IF ~decoded.ok THEN Threw("URIError")
        ELSE IF InvalidPort(port) THEN Threw("MongoParseError")
        ELSE Constructed([host |-> ToLowerCase(normalized), port |-> port,
                          socketPath |-> UndefinedText, isIPv6 |-> bracketed],
                         TRUE)

\* new HostAddress(hostString)
NewHostAddress(hostString) ==
    LET escapedHost == EscapeSpaces(hostString)
        socketPath == DecodeURIComponent(escapedHost)
        url == ParseURL(escapedHost)
    IN  IF EndsWith(escapedHost, SockSuffix)
        THEN IF ~socketPath.ok THEN Threw("URIError")
             ELSE Constructed([NoHostAddress EXCEPT !.socketPath = socketPath.text],
                              FALSE)
        ELSE IF ~url.ok THEN Threw("MongoRuntimeError")
        ELSE FromURL(url)

\* HostAddress.prototype.toString
toString(instance) ==
    IF instance.host # UndefinedText
    THEN IF instance.isIPv6
         THEN <<"[">> \o instance.host \o <<"]", ":">> \o NumberToString(instance.port)
         ELSE instance.host \o <<":">> \o NumberToString(instance.port)
    ELSE instance.socketPath

NoText == <<"none">>
NotConstructed == Threw("notConstructed")

\* A host string, what the constructor made of it, the string toString gave,
\* what fromString made of that string, and the latest assignment to a field
AddressInit ==
    /\ NoRun
    /\ signal = NoSignal
    /\ promise = Unused
    /\ race = Unused
    /\ pool = Unused
    /\ list = Unused
    /\ machine = Unused
    /\ iterator = Unused
    /\ disposable = Unused
    /\ fleet = Unused
    /\ \E hostString \in HostStrings :
           address = [hostString |-> hostString, made |-> NotConstructed,
                      text |-> NoText, parsed |-> NotConstructed,
                      assigned |-> "none", last |-> "none"]

AddressConstruct ==
    /\ address.last = "none"
    /\ address' = [address EXCEPT !.made = NewHostAddress(address.hostString),
                                  !.last = "new"]
    /\ UNCHANGED <<runVars, signal, promise, race, pool, list, machine, iterator, disposable, fleet>>

AddressToString ==
    /\ address.last = "new"
    /\ address.made.thrown = "none"
    /\ address' = [address EXCEPT !.text = toString(address.made.instance),
                                  !.last = "toString"]
    /\ UNCHANGED <<runVars, signal, promise, race, pool, list, machine, iterator, disposable, fleet>>

\* HostAddress.fromString(s) of the string toString gave
AddressFromString ==
    /\ address.last = "toString"
    /\ address' = [address EXCEPT !.parsed = NewHostAddress(address.text),
                                  !.last = "fromString"]
    /\ UNCHANGED <<runVars, signal, promise, race, pool, list, machine, iterator, disposable, fleet>>

AssignedTexts == { <<"b">> }
AssignedPorts == { 1 }

\* An assignment to a field of the instance: a frozen instance throws
\* TypeError and keeps its fields, any other instance takes the value
AddressAssign(field, value) ==
    /\ address.last \in {"new", "toString", "fromString"}
    /\ address.made.thrown = "none"
    /\ address.assigned = "none"
    /\ address' =
           IF address.made.frozen
           THEN [address EXCEPT !.assigned = "TypeError", !.last = "assign"]
           ELSE [address EXCEPT !.made.instance[field] = value,
                                !.assigned = field, !.last = "assign"]
    /\ UNCHANGED <<runVars, signal, promise, race, pool, list, machine, iterator, disposable, fleet>>

AddressNext ==
    \/ AddressConstruct
    \/ AddressToString
    \/ AddressFromString
    \/ \E value \in AssignedTexts : AddressAssign("host", value)
    \/ \E value \in AssignedTexts : AddressAssign("socketPath", value)
    \/ \E value \in AssignedPorts : AddressAssign("port", value)
    \/ \E value \in BOOLEAN : AddressAssign("isIPv6", value)

AddressSpec == AddressInit /\ [][AddressNext]_vars

\* A host string that the constructor takes for a domain-socket path
IsSocketString(hostString) == EndsWith(EscapeSpaces(hostString), SockSuffix)

\* The host string without an explicit default port at its end
WithoutDefaultPort(hostString) ==
    IF EndsWith(hostString, <<":">> \o NumberToString(DefaultPort))
    THEN SubSeq(hostString, 1, Len(hostString) - 6)
    ELSE hostString

\* Two host strings that differ only in letter case or in stating the
\* default port
SameUpToCaseAndDefaultPort(one, other) ==
    /\ ~IsSocketString(one)
    /\ ~IsSocketString(other)
    /\ ToLowerCase(WithoutDefaultPort(one)) = ToLowerCase(WithoutDefaultPort(other))

\* C23: host strings that differ only in letter case of the host or in
\* stating the default port 27017 produce instances with equal host, port,
\* isIPv6 and toString(), and re-parsing an instance's toString() yields an
\* equal instance.
NormalizationIsCanonical ==
    /\ address.last = "new" /\ address.made.thrown = "none" =>
           \A other \in HostStrings :
               SameUpToCaseAndDefaultPort(address.hostString, other) =>
                   LET made == NewHostAddress(other)
                   IN  /\ made.thrown = "none"
                       /\ made.instance.host = address.made.instance.host
                       /\ made.instance.port = address.made.instance.port
                       /\ made.instance.isIPv6 = address.made.instance.isIPv6
                       /\ toString(made.instance) = toString(address.made.instance)
    /\ address.last = "fromString" =>
           /\ address.parsed.thrown = "none"
           /\ address.parsed.instance = address.made.instance

\* The host string states a port that is the literal zero
PortIsZero(hostString) == EndsWith(hostString, <<":", "0">>)

\* The host string states no port
PortIsAbsent(hostString) ==
    IF StartsWith(hostString, <<"[">>) THEN EndsWith(hostString, <<"]">>)
    ELSE FirstIndexOf(hostString, ":") = 0

\* The host string holds a percent sign that no two hex digits follow, which
\* decodeURIComponent rejects
Malformed(hostString) == ~DecodeURIComponent(EscapeSpaces(hostString)).ok

\* C24: constructing a HostAddress from a non-socket host string whose port is
\* the literal zero fails and produces no instance: the error is the parse
\* error of the port check, MongoParseError, unless the host holds a malformed
\* escape, which fails the decoding of the host before the port is looked at;
\* a non-socket host string with no port gives an instance with port 27017.
ZeroPortIsParseError ==
    (address.last # "none" /\ ~IsSocketString(address.hostString)) =>
        /\ PortIsZero(address.hostString) =>
               /\ address.made.instance = NoHostAddress
               /\ address.made.thrown =
                      IF Malformed(address.hostString)
                      THEN "URIError" ELSE "MongoParseError"
        /\ (PortIsAbsent(address.hostString) /\ ~Malformed(address.hostString)) =>
               /\ address.made.thrown = "none"
               /\ address.made.instance.port = DefaultPort

\* The constructor rejected a host and port zero
ZeroPortRejected ==
    /\ address.last = "new"
    /\ address.hostString = <<"a", ":", "0">>
    /\ address.made.thrown = "MongoParseError"
    /\ address.made.instance = NoHostAddress

\* C25: every successfully constructed HostAddress is immutable: for
\* host:port instances and for domain-socket-path instances alike, no later
\* assignment changes host, port, socketPath or isIPv6.
ConstructedIsImmutable ==
    [][(address.last # "none" /\ address.made.thrown = "none")
          => address'.made.instance = address.made.instance]_vars

\* ---------------------------------------------------------------------------
\* The order of the pipeline stages
\* ---------------------------------------------------------------------------

\* The stage that holds control: 1 connect-if-needed, 2 session binding,
\* 3 server selection, 4 retry policy, 5 operation invocation, 6 the finally
\* block of the session stage while a settlement unwinds, 7 settled
Stage(at) ==
    CASE at \in {"start", "connecting"} -> 1
      [] at \in {"withSession", "checkingSessionSupport", "bind"} -> 2
      [] at \in {"withServer", "selecting"} -> 3
      [] at \in {"withRetryability", "reselecting"} -> 4
      [] at \in {"executing", "retrying"} -> 5
      [] at \in {"cleanup", "ending"} -> 6
      [] OTHER -> 7

\* What the later stages leave behind when they run: a selection made by the
\* server-selection stage, the locals of the retry stage, an invocation
SelectionStageRan == \E i \in DOMAIN calls.select : calls.select[i].by = "withServer"
RetryStageRan == retry.stage # "none"
InvocationStageRan == calls.execute # <<>>

\* C26: the stages run in the order connect-if-needed, session binding, server
\* selection, retry policy, operation invocation.  A stage starts only when
\* the stage before it hands over; control comes back only from a failed
\* invocation to the retry stage that called it.  When a stage fails, no later
\* stage has run or runs afterwards, the settlement unwinds through the finally
\* block of the session stage when a session was bound, which ends the
\* implicit session of the run, and executeOperation rejects with the failure.
StagesRunInOrder ==
    /\ [](/\ Stage(pc) = 1 => ctx = NoContext
          /\ Stage(pc) \in {1, 2} => ~SelectionStageRan
          /\ (Stage(pc) \in 1 .. 3 \/ pc = "withRetryability") =>
                 ~InvocationStageRan
          /\ Stage(pc) \in 1 .. 3 => ~RetryStageRan)
    /\ [][/\ Stage(pc') \in {Stage(pc), Stage(pc) + 1, 6, 7}
             \/ (pc = "executing" /\ pc' = "reselecting")
          /\ Stage(pc') = 6 => Stage(pc) \in 3 .. 6
          /\ Stage(pc') = 7 => Stage(pc) \in {1, 2, 6}
          /\ (Stage(pc) \in {1, 2} /\ Stage(pc') = 7) =>
                 /\ outcome'.status = "rejected"
                 /\ IsMongoError(outcome'.error)
                 /\ ctx' = NoContext
                 /\ ~SelectionStageRan' /\ ~RetryStageRan' /\ ~InvocationStageRan'
          /\ (pc = "selecting" /\ Stage(pc') = 6) =>
                 /\ pending' = [status |-> "error",
                                error |-> DriverError("MongoServerSelectionError",
                                                      "server selection timed out")]
                 /\ ~RetryStageRan' /\ ~InvocationStageRan'
          /\ (pc = "reselecting" /\ Stage(pc') = 6) =>
                 /\ pending'.status = "error"
                 /\ Invocations' = 1
          /\ Stage(pc) = 6 =>
                 /\ UNCHANGED <<pending, ctx, retry>>
                 /\ calls'.select = calls.select
                 /\ calls'.execute = calls.execute
                 /\ pc = "cleanup" =>
                        IF ctx.session /\ session.owner = "run"
                        THEN pc' = "ending" /\ calls'.endSession = calls.endSession + 1
                        ELSE pc' = "done" /\ calls'.endSession = calls.endSession
                 /\ pc' = "done" =>
                        IF pending.status = "error"
                        THEN /\ outcome'.status = "rejected"
                             /\ outcome'.error = pending.error
                        ELSE outcome'.status = "resolved"
          /\ pc # "done"]_vars

\* The server-selection stage failed after an implicit session was bound: no
\* later stage ran, the session was ended and the failure was surfaced
SelectionFailureSurfacedAfterCleanup ==
    /\ pc = "done"
    /\ SelectionStageRan
    /\ ~RetryStageRan
    /\ ~InvocationStageRan
    /\ session.owner = "run"
    /\ calls.endSession = 1
    /\ outcome.status = "rejected"
    /\ outcome.error.class = "MongoServerSelectionError"

\* ---------------------------------------------------------------------------
\* The retry
\* ---------------------------------------------------------------------------

\* C27: when a retry is made, the second invocation of operation.executeAsync
\* receives the server returned by the re-selection performed after the first
\* failure, together with the session of the first invocation.
RetryRunsOnReselectedServer ==
    Invocations = 2 =>
        /\ calls.execute[2].server = retry.server
        /\ calls.execute[2].session = calls.execute[1].session

\* The re-selection of a write returned a server without retryable writes
ReselectedWithoutRetryableWrites ==
    /\ retry.server \in Servers
    /\ retry.hasWriteAspect
    /\ ~SupportsRetryableWrites(retry.server)

\* C28: during a retry of a write, when the server returned by re-selection
\* does not support retryable writes, the operation is not invoked a second
\* time and executeOperation rejects with MongoUnexpectedServerResponseError,
\* not with the error of the first attempt.
UnsupportedReselectionFails ==
    ReselectedWithoutRetryableWrites =>
        /\ Invocations = 1
        /\ pc \in {"cleanup", "ending", "done"}
        /\ pc # "done" =>
               /\ pending.status = "error"
               /\ pending.error.class = "MongoUnexpectedServerResponseError"
        /\ pc = "done" =>
               /\ outcome.status = "rejected"
               /\ outcome.error.class = "MongoUnexpectedServerResponseError"
               /\ outcome.error # calls.execute[1].error

\* A write was re-selected onto a server without retryable writes and the run
\* was rejected
UnsupportedReselectionRejected ==
    /\ ReselectedWithoutRetryableWrites
    /\ pc = "done"
    /\ outcome.error.class = "MongoUnexpectedServerResponseError"
    /\ calls.execute[1].state = "rejected"
    /\ Len(calls.select) = 2

\* The step in which the first failure is found retryable: the catch block
\* runs up to the call of the re-selection
RetryDecided == pc = "executing" /\ pc' = "reselecting"

\* The step calls session.unpin({ force: true, forceClear: true })
ForcedUnpin ==
    calls'.unpin = Append(calls.unpin, [force |-> TRUE, txn |-> session.txn])

\* C29: on a retryable first failure, session.unpin({force: true, forceClear:
\* true}) is called exactly when the error is a network error, the session is
\* pinned and not in an active transaction and the operation is
\* cursor-creating; the re-selection is then called with the session already
\* unpinned, before any second invocation.  In every other retry, and in every
\* other step of the retry stage, the pin state of the session is unchanged.
ForcedUnpinExactlyOnNetworkError ==
    [][/\ RetryDecided =>
              /\ ForcedUnpin <=>
                     /\ IsMongoNetworkError(calls'.execute[1].error)
                     /\ session.isPinned
                     /\ ~InTransaction(session)
                     /\ retry'.cursorCreating
              /\ ForcedUnpin \/ calls'.unpin = calls.unpin
              /\ session'.isPinned = (session.isPinned /\ ~ForcedUnpin)
              /\ calls'.select[Len(calls'.select)].by = "withRetryability"
              /\ calls'.select[Len(calls'.select)].pinned = session'.isPinned
              /\ Invocations' = 1
       /\ (Stage(pc) \in {4, 5} /\ ~RetryDecided) =>
              /\ session'.isPinned = session.isPinned
              /\ calls'.unpin = calls.unpin]_vars

\* A network error on a pinned session: the session was unpinned by force and
\* the re-selection is pending
UnpinnedBeforeReselection ==
    /\ pc = "reselecting"
    /\ Invocations = 1
    /\ IsMongoNetworkError(calls.execute[1].error)
    /\ calls.unpin = <<[force |-> TRUE, txn |-> "none"]>>
    /\ ~session.isPinned
    /\ ~calls.select[2].pinned
    /\ calls.select[1].pinned

\* What a second invocation needs besides the class of the first failure: a
\* bound session, the RETRYABLE aspect, no transaction at binding time, and a
\* read with read retry enabled and canRetryRead, or a write with write retry
\* enabled, canRetryWrite and a first-selected server with retryable writes
RetryConditions ==
    /\ ctx.session
    /\ retry.retryable
    /\ ~ctx.inTransaction
    /\ \/ /\ retry.hasReadAspect
          /\ topology.retryReads
          /\ retry.canRetryRead
       \/ /\ retry.hasWriteAspect
          /\ topology.retryWrites
          /\ retry.canRetryWrite
          /\ SupportsRetryableWrites(ctx.server)

\* C30: the operation is invoked a second time only if a session is bound, the
\* operation is RETRYABLE, the first failure is a MongoError, the session was
\* not in a transaction at binding time, and the operation is a read with read
\* retry enabled and canRetryRead or a write with write retry enabled,
\* canRetryWrite and a first-selected server that supports retryable writes.
\* In every other case the operation is invoked once and its failure is
\* surfaced unchanged.
SecondInvocationOnlyWhenEligible ==
    /\ Invocations = 2 =>
           RetryConditions /\ IsMongoError(calls.execute[1].error)
    /\ (FirstFailed /\ ~(RetryConditions /\ IsMongoError(calls.execute[1].error))) =>
           SurfacedUnchangedWithoutRetry(calls.execute[1].error)

\* A write that is eligible only as a write is invoked a second time
EligibleWriteInvokedAgain ==
    /\ Invocations = 2
    /\ calls.execute[2].state = "pending"
    /\ retry.hasWriteAspect
    /\ ~retry.hasReadAspect
    /\ RetryConditions

\* ---------------------------------------------------------------------------
\* Frame of the retry stage, the connect stage and the selection stage
\* ---------------------------------------------------------------------------

\* C31: when write retry is not eligible for a run (write retry disabled,
\* session in a transaction, selected server without retryable writes,
\* canRetryWrite false, no write aspect, no session, or operation not
\* RETRYABLE), the pipeline never advances the session's transaction number
\* and never sets operation.options.willRetryWrite.
IneligibleWriteLeavesTransactionNumber ==
    ~WriteRetryEligible =>
        /\ session.txnNumber = 0
        /\ ~operation.willRetryWrite
        /\ calls.increment = 0
        /\ \A i \in DOMAIN calls.execute : calls.execute[i].txnNumber = 0

\* A write on a topology with write retry disabled ran to its end
WriteWithRetryDisabledRan ==
    /\ pc = "done"
    /\ retry.stage = "guarded"
    /\ retry.hasWriteAspect
    /\ ~topology.retryWrites
    /\ Invocations = 1
    /\ session.txnNumber = 0

\* C32: when the client has no topology, the run sets the skip-ping flag
\* before it calls connect and removes it when connect returns or throws, so
\* the flag is present exactly while the run awaits connect and absent after
\* the connect stage; when the client has a topology, connect is not called
\* and the flag is never set.
SkipPingOnlyWhileConnecting ==
    /\ [](client.skipPing <=> pc = "connecting")
    /\ [][/\ pc' = "connecting" =>
                 pc = "start" /\ ~client.topology /\ client'.skipPing
          /\ (pc = "start" /\ client.topology) =>
                 pc' = "withSession" /\ client' = client
          /\ pc = "connecting" => ~client'.skipPing /\ pc' # "connecting"]_vars

\* connect threw and the flag is gone
FlagRemovedAfterFailedConnect ==
    /\ pc = "done"
    /\ outcome.status = "rejected"
    /\ outcome.error.message = "connect failed"
    /\ ~client.topology
    /\ ~client.skipPing

\* C34: the selection stage chooses the same-server selector when the
\* operation has the MUST_SELECT_SAME_SERVER aspect, whatever else holds, else
\* the secondary-writable selector when the operation opts into secondary
\* writes, else the resolved read preference; the topology is asked to select
\* with that selector and the bound session, and the selector is recorded in
\* the context, where a retry takes it from.
SelectorByPriority ==
    /\ \A i \in DOMAIN calls.select :
           LET call == calls.select[i]
           IN  /\ call.session = ctx.session
               /\ call.by = "withServer" =>
                      /\ i = 1
                      /\ call.selector =
                             IF call.mustSelectSameServer THEN "sameServer"
                             ELSE IF call.trySecondaryWrite THEN "secondaryWritable"
                             ELSE ctx.readPreference
               /\ call.by = "withRetryability" =>
                      /\ i = 2
                      /\ call.selector = calls.select[1].selector
    /\ ctx.server \in Servers => ctx.selector = calls.select[1].selector

\* An operation that must select the same server and opts into secondary
\* writes, on a pinned session, was selected for twice with the same-server
\* selector
SameServerSelectedTwice ==
    /\ Len(calls.select) = 2
    /\ calls.select[1].mustSelectSameServer
    /\ calls.select[1].trySecondaryWrite
    /\ calls.select[1].pinned
    /\ calls.select[1].selector = "sameServer"
    /\ calls.select[2].selector = "sameServer"

\* The step calls session.unpin
Unpins == Len(calls'.unpin) = Len(calls.unpin) + 1

\* C35: session.unpin is never called while the session is pinned and in an
\* active transaction: the binding stage unpins only a pinned session whose
\* transaction is committed, and only when the operation does not bypass the
\* pinning check, and the retry stage unpins, by force, only a session that is
\* not in a transaction.
NoUnpinInActiveTransaction ==
    /\ [](\A i \in DOMAIN calls.unpin : calls.unpin[i].txn # "active")
    /\ [][/\ Len(calls'.unpin) \in {Len(calls.unpin), Len(calls.unpin) + 1}
          /\ Unpins =>
                 LET call == calls'.unpin[Len(calls'.unpin)]
                 IN  /\ session.isPinned
                     /\ ~InTransaction(session)
                     /\ call.txn = session.txn
                     /\ pc \in {"bind", "executing"}
                     /\ pc = "bind" =>
                            /\ ~call.force
                            /\ IsCommitted(session)
                            /\ ~call.bypassPinningCheck
                     /\ pc = "executing" => call.force]_vars

\* The binding stage unpinned a session whose transaction was committed
CommittedSessionUnpinned ==
    /\ calls.unpin # <<>>
    /\ ~calls.unpin[1].force
    /\ calls.unpin[1].txn = "committed"
    /\ ~session.isPinned
    /\ Invocations = 1

\* ---------------------------------------------------------------------------
\* List.prune and iteration
\* ---------------------------------------------------------------------------

\* The nodes of a walk whose value the filter does not hold for
Kept(l, walk, filter) == SelectSeq(walk, LAMBDA node : l.nodes[node].value \notin filter)

\* C37: prune(filter) removes every element the filter holds for and no other
\* element: the nodes left are the nodes the filter does not hold for, in the
\* order they had, and the length goes down by the number of nodes removed.
PruneRemovesExactlyMatching ==
    [][list'.last.op = "prune" =>
           LET before == NextWalk(list)
               kept == Kept(list, before, list'.last.filter)
           IN  /\ NextWalk(list') = kept
               /\ \A i \in DOMAIN kept :
                      list'.nodes[kept[i]].value = list.nodes[kept[i]].value
               /\ \A i \in DOMAIN kept :
                      list.nodes[kept[i]].value \notin list'.last.filter
               /\ list'.count = list.count - (Len(before) - Len(kept))
               /\ list'.count = Len(ValuesOf(list'))]_vars

\* prune took the node in the middle of three out
PrunedMiddle ==
    /\ list.last.op = "prune"
    /\ list.last.filter = {"b"}
    /\ list.last.held = 3
    /\ list.count = 2
    /\ ValuesOf(list) = <<"a", "a">>

\* ---------------------------------------------------------------------------
\* Reentrant transitions
\* ---------------------------------------------------------------------------

\* C38: every change of target.s.state made by stateTransition follows a legal
\* edge of the table from the state it replaces, also when a stateChanged
\* listener calls stateTransition on the same target during the notification.
CommitsFollowLegalEdges ==
    [][machine'.state # machine.state =>
           machine'.state \in LegalSet(machine.table, machine.state)]_vars

-----------------------------------------------------------------------------
(* DisposableStack *)

\* Bound: the callbacks deferred on one stack
MaxDeferred == 4

\* new DisposableStack(): an empty List of callbacks.  A callback is named by
\* its place in deferred, the callbacks given to defer so far; invoked lists the
\* callbacks called and whether each threw; begun is how many had been invoked
\* when the running dispose started, errors is its array of caught errors (an
\* error is named by the callback that threw it), and thrown holds the errors of
\* the AggregateError it threw.
NewDisposableStack ==
    [stack |-> NewList, deferred |-> <<>>, invoked |-> <<>>, begun |-> 0,
     errors |-> <<>>, thrown |-> <<>>, state |-> "idle"]

DisposableInit ==
    /\ NoRun
    /\ signal = NoSignal
    /\ promise = Unused
    /\ race = Unused
    /\ pool = Unused
    /\ list = Unused
    /\ machine = Unused
    /\ address = Unused
    /\ iterator = Unused
    /\ disposable = NewDisposableStack
    /\ fleet = Unused

\* A dispose that takes its callbacks from the tail of the list
TakeLastCallback(l) == Pop(l)

\* const cb = this.stack.shift()
TakeCallback(l) == Shift(l)

\* defer(cb): the callback is pushed on the list; a callback run by dispose
\* may defer another one
Defer ==
    /\ Len(disposable.deferred) < MaxDeferred
    /\ LET cb == Len(disposable.deferred) + 1
       IN disposable' =
            [disposable EXCEPT !.stack = Push(@, cb),
                               !.deferred = Append(@, cb),
                               !.state = IF @ = "disposing" THEN @ ELSE "idle"]
    /\ UNCHANGED <<runVars, signal, promise, race, pool, list, machine, address, iterator, fleet>>

\* [Symbol.dispose](): const errors = []
DisposeBegin ==
    /\ disposable.state # "disposing"
    /\ disposable' = [disposable EXCEPT !.state = "disposing", !.errors = <<>>,
                                        !.thrown = <<>>,
                                        !.begun = Len(disposable.invoked)]
    /\ UNCHANGED <<runVars, signal, promise, race, pool, list, machine, address, iterator, fleet>>

\* One turn of the while loop: the callback is shifted off the list and
\* called; what it throws is caught and pushed on errors
InvokeCallback ==
    /\ disposable.state = "disposing"
    /\ disposable.stack.count # 0
    /\ \E threw \in BOOLEAN :
         LET taken == TakeCallback(disposable.stack)
         IN disposable' =
              [disposable EXCEPT
                 !.stack = taken.list,
                 !.invoked = Append(@, [cb |-> taken.returned, threw |-> threw]),
                 !.errors = IF threw THEN Append(@, taken.returned) ELSE @]
    /\ UNCHANGED <<runVars, signal, promise, race, pool, list, machine, address, iterator, fleet>>

\* The list is empty: an AggregateError of the errors is thrown when there are
\* any, otherwise dispose returns
DisposeEnd ==
    /\ disposable.state = "disposing"
    /\ disposable.stack.count = 0
    /\ disposable' =
         IF disposable.errors # <<>>
         THEN [disposable EXCEPT !.state = "thrown", !.thrown = disposable.errors]
         ELSE [disposable EXCEPT !.state = "returned"]
    /\ UNCHANGED <<runVars, signal, promise, race, pool, list, machine, address, iterator, fleet>>

DisposableNext ==
    \/ Defer
    \/ DisposeBegin
    \/ InvokeCallback
    \/ DisposeEnd

DisposableSpec == DisposableInit /\ [][DisposableNext]_vars

\* The callbacks that threw among those the running dispose invoked
ThrewSinceBegun ==
    LET since == SubSeq(disposable.invoked, disposable.begun + 1,
                        Len(disposable.invoked))
        threw == SelectSeq(since, LAMBDA call : call.threw)
    IN [i \in 1 .. Len(threw) |-> threw[i].cb]

\* C40: when dispose has ended, every deferred callback has been invoked
\* exactly once, in the order of deferral, also after one of them threw; the
\* stack is empty; and dispose threw one AggregateError holding all the errors
\* thrown if and only if a callback threw.
DisposeRunsEveryCallbackOnce ==
    disposable.state \in {"returned", "thrown"} =>
        /\ [i \in 1 .. Len(disposable.invoked) |-> disposable.invoked[i].cb]
             = disposable.deferred
        /\ disposable.stack.count = 0
        /\ NextWalk(disposable.stack) = <<>>
        /\ (disposable.state = "thrown") <=> (ThrewSinceBegun # <<>>)
        /\ disposable.thrown = ThrewSinceBegun

DisposedAfterTwoThrows ==
    /\ disposable.state = "thrown"
    /\ disposable.begun = 0
    /\ Len(disposable.invoked) = 3
    /\ disposable.invoked[1].threw
    /\ ~disposable.invoked[2].threw
    /\ disposable.invoked[3].threw
    /\ disposable.thrown = <<1, 3>>

-----------------------------------------------------------------------------
(* Iterating a List *)

\* Bound: the iterations made over one list
MaxRounds == 2

\* The generator object made by nodes(): nothing of its body has run.  ptr and
\* next are the generator's locals; yielded lists the nodes it has yielded with
\* their values and whether each was linked in the list when yielded; snapshot
\* is the list's nodes from the head when the generator was made; removed holds
\* the nodes removed while they were the yielded one; past keeps the earlier
\* iterations.
NewGenerator(l, past) ==
    [state |-> "created", ptr |-> HeadNode, next |-> HeadNode, yielded |-> <<>>,
     snapshot |-> NextWalk(l), removed |-> {}, past |-> past]

\* A list of up to MaxLen values and a first iteration over it
IterationInit ==
    /\ NoRun
    /\ signal = NoSignal
    /\ promise = Unused
    /\ race = Unused
    /\ pool = Unused
    /\ \E n \in 0 .. MaxLen :
         \E values \in [1 .. n -> Values] : list = PushMany(NewList, values)
    /\ machine = Unused
    /\ address = Unused
    /\ iterator = NewGenerator(list, <<>>)
    /\ disposable = Unused
    /\ fleet = Unused

\* A generator that saves the node after the next one
SavedNextButOne(l, ptr) == l.nodes[l.nodes[ptr].next].next

\* const { next } = ptr, read before ptr is yielded
SavedNext(l, ptr) == l.nodes[ptr].next

\* next() on the generator: the first call starts at head.next, a later call
\* goes on with ptr = next; the generator returns when ptr is the head and
\* otherwise saves ptr.next and yields ptr
GeneratorNext ==
    /\ iterator.state \in {"created", "yielded"}
    /\ LET ptr == IF iterator.state = "created" THEN list.nodes[HeadNode].next
                  ELSE iterator.next
       IN iterator' =
            IF ptr = HeadNode
            THEN [iterator EXCEPT !.state = "done", !.ptr = ptr]
            ELSE [iterator EXCEPT
                    !.state = "yielded",
                    !.ptr = ptr,
                    !.next = SavedNext(list, ptr),
                    !.yielded = Append(@, [node |-> ptr,
                                           value |-> list.nodes[ptr].value,
                                           linked |-> \E i \in DOMAIN NextWalk(list) :
                                                         NextWalk(list)[i] = ptr])]
    /\ UNCHANGED <<runVars, signal, promise, race, pool, list, machine, address, disposable, fleet>>

\* The body of the loop over the generator removes the node it was given
RemoveYielded ==
    /\ iterator.state = "yielded"
    /\ iterator.ptr \notin iterator.removed
    /\ list' = Remove(list, iterator.ptr).list
    /\ iterator' = [iterator EXCEPT !.removed = @ \cup {iterator.ptr}]
    /\ UNCHANGED <<runVars, signal, promise, race, pool, machine, address, disposable, fleet>>

\* A new iteration over the list after the last one has returned
NewIteration ==
    /\ iterator.state = "done"
    /\ Len(iterator.past) + 1 < MaxRounds
    /\ iterator' = NewGenerator(list, Append(iterator.past,
                                             [yielded |-> iterator.yielded,
                                              removed |-> iterator.removed]))
    /\ UNCHANGED <<runVars, signal, promise, race, pool, list, machine, address, disposable, fleet>>

IterationNext ==
    \/ GeneratorNext
    \/ RemoveYielded
    \/ NewIteration

IterationSpec == IterationInit /\ [][IterationNext]_vars

YieldedNodes == [i \in 1 .. Len(iterator.yielded) |-> iterator.yielded[i].node]

\* C36: an iteration yields the nodes the list held from the head when it was
\* started, in that order, each once and none after its removal, also when the
\* yielded node is removed during the step; it ends at the head having yielded
\* them all, and the list then holds the nodes that were not removed.  An
\* iteration started afterwards does the same for the list's current contents.
IterationYieldsEachOnce ==
    /\ Len(iterator.yielded) <= Len(iterator.snapshot)
    /\ YieldedNodes = SubSeq(iterator.snapshot, 1, Len(iterator.yielded))
    /\ \A i \in DOMAIN iterator.yielded : iterator.yielded[i].linked
    /\ iterator.state = "done" =>
          /\ iterator.ptr = HeadNode
          /\ YieldedNodes = iterator.snapshot
          /\ NextWalk(list) = SelectSeq(iterator.snapshot,
                                        LAMBDA node : node \notin iterator.removed)
          /\ list.count = Len(NextWalk(list))

SecondIterationAfterRemoval ==
    /\ iterator.state = "done"
    /\ Len(iterator.past) = 1
    /\ Len(iterator.past[1].yielded) = 3
    /\ iterator.past[1].removed = {iterator.past[1].yielded[2].node}
    /\ YieldedNodes = <<iterator.past[1].yielded[1].node, iterator.past[1].yielded[3].node>>

-----------------------------------------------------------------------------
(* Concurrent runs on one client *)

\* Bound: the executeOperation calls in flight on the client
NumRuns == 2

Runs == 1 .. NumRuns

\* Symbol(): a value equal to no other, named by the count of symbols made
NewSymbol(n) == "symbol" \o ToString(n)

\* The sessions callers hold before any run: one started explicitly, the
\* implicit session of a cursor, and an explicit one that has ended
SessionsOfCallers ==
    <<[StartSession("none") EXCEPT !.explicit = TRUE],
      StartSession("other"),
      [StartSession("none") EXCEPT !.explicit = TRUE, !.hasEnded = TRUE]>>

\* executeOperationAsync builds one context per call: run r holds its own
\* operation, owner, session and server.  A session is named by its place in
\* sessions; startedBy is the run whose startSession call made it (0: a
\* caller), ended lists the endSession calls, selected is the server the run's
\* selection returned and executed the arguments of its executeAsync call.
\* The operations are valid, not RETRYABLE, and carry no session or one of the
\* callers' sessions; the topology knows that sessions are supported.
FleetInit ==
    /\ NoRun
    /\ signal = NoSignal
    /\ promise = Unused
    /\ race = Unused
    /\ pool = Unused
    /\ list = Unused
    /\ machine = Unused
    /\ address = Unused
    /\ iterator = Unused
    /\ disposable = Unused
    /\ \E c \in { c \in [topology : BOOLEAN, hasBeenClosed : BOOLEAN, skipPing : {FALSE}] :
                    c.hasBeenClosed => ~c.topology },
          supplied \in [Runs -> 0 .. Len(SessionsOfCallers)] :
         fleet = [client |-> c,
                  symbols |-> 0,
                  sessions |-> SessionsOfCallers,
                  startedBy |-> [i \in DOMAIN SessionsOfCallers |-> 0],
                  ended |-> <<>>,
                  runs |-> [r \in Runs |->
                              [pc |-> "start", operation |-> [session |-> supplied[r]],
                               owner |-> "none", session |-> 0, server |-> 0,
                               selected |-> 0, executed |-> <<>>, failed |-> FALSE]]]

FleetUnchanged ==
    UNCHANGED <<runVars, signal, promise, race, pool, list, machine, address, iterator, disposable>>

\* withConnectedClient of run r up to its first await
FleetWithConnectedClient(r) ==
    /\ fleet.runs[r].pc = "start"
    /\ fleet' =
         IF fleet.client.topology
         THEN [fleet EXCEPT !.runs[r].pc = "bind"]
         ELSE IF fleet.client.hasBeenClosed
         THEN [fleet EXCEPT !.runs[r].pc = "rejected"]
         ELSE [fleet EXCEPT !.client.skipPing = TRUE, !.runs[r].pc = "connecting"]
    /\ FleetUnchanged

\* The client.connect() call of run r settles; its finally block deletes the
\* skip-ping option
FleetConnectSettled(r) ==
    /\ fleet.runs[r].pc = "connecting"
    /\ \E ok \in BOOLEAN :
         fleet' =
           IF ok
           THEN [fleet EXCEPT !.client.topology = TRUE, !.client.skipPing = FALSE,
                              !.runs[r].pc = "bind"]
           ELSE [fleet EXCEPT !.client.skipPing = FALSE, !.runs[r].pc = "rejected"]
    /\ FleetUnchanged

\* withSession of run r up to next(): an operation without a session gets a
\* new implicit session owned by a new symbol
FleetBindSession(r) ==
    /\ fleet.runs[r].pc = "bind"
    /\ LET supplied == fleet.runs[r].operation.session
           carried == IF supplied # 0 THEN fleet.sessions[supplied] ELSE NoSession
           check == SessionCheck(TRUE, carried, FALSE)
           owner == NewSymbol(fleet.symbols + 1)
       IN fleet' =
            IF check # "none"
            THEN [fleet EXCEPT !.runs[r].pc = "rejected"]
            ELSE IF supplied = 0
            THEN [fleet EXCEPT !.symbols = @ + 1,
                               !.sessions = Append(@, StartSession(owner)),
                               !.startedBy = Append(@, r),
                               !.runs[r].owner = owner,
                               !.runs[r].session = Len(fleet.sessions) + 1,
                               !.runs[r].pc = "withServer"]
            ELSE [fleet EXCEPT !.runs[r].session = supplied,
                               !.runs[r].pc = "withServer"]
    /\ FleetUnchanged

\* withServer of run r calls topology.selectServerAsync
FleetWithServer(r) ==
    /\ fleet.runs[r].pc = "withServer"
    /\ fleet' = [fleet EXCEPT !.runs[r].pc = "selecting"]
    /\ FleetUnchanged

\* The selection of run r settles.  On a server, withRetryability calls next()
\* for the operation that is not RETRYABLE and runCommand calls
\* operation.executeAsync(context.server, context.session).
FleetServerSelected(r) ==
    /\ fleet.runs[r].pc = "selecting"
    /\ \/ \E server \in Servers :
            fleet' = [fleet EXCEPT
                        !.runs[r].selected = server,
                        !.runs[r].server = server,
                        !.runs[r].executed =
                            Append(@, [server |-> server,
                                       session |-> fleet.runs[r].session]),
                        !.runs[r].pc = "executing"]
       \/ fleet' = [fleet EXCEPT !.runs[r].failed = TRUE, !.runs[r].pc = "cleanup"]
    /\ FleetUnchanged

\* operation.executeAsync of run r settles
FleetExecuteSettled(r) ==
    /\ fleet.runs[r].pc = "executing"
    /\ \E ok \in BOOLEAN :
         fleet' = [fleet EXCEPT !.runs[r].failed = ~ok, !.runs[r].pc = "cleanup"]
    /\ FleetUnchanged

\* The finally block of withSession of run r
FleetCleanup(r) ==
    /\ fleet.runs[r].pc = "cleanup"
    /\ LET run == fleet.runs[r]
       IN fleet' =
            IF OwnsSession(run.session # 0, fleet.sessions[run.session], run.owner)
            THEN [fleet EXCEPT !.ended = Append(@, [session |-> run.session, by |-> r]),
                               !.runs[r].pc = "ending"]
            ELSE [fleet EXCEPT !.runs[r].pc = IF run.failed THEN "rejected"
                                              ELSE "resolved"]
    /\ FleetUnchanged

\* session.endSession() of run r settles; its rejection is dropped
FleetEndSessionSettled(r) ==
    /\ fleet.runs[r].pc = "ending"
    /\ \E ok \in BOOLEAN :
         fleet' = [fleet EXCEPT
                     !.sessions[fleet.runs[r].session].hasEnded = ok,
                     !.runs[r].pc = IF fleet.runs[r].failed THEN "rejected"
                                    ELSE "resolved"]
    /\ FleetUnchanged

FleetNext ==
    \E r \in Runs :
        \/ FleetWithConnectedClient(r)
        \/ FleetConnectSettled(r)
        \/ FleetBindSession(r)
        \/ FleetWithServer(r)
        \/ FleetServerSelected(r)
        \/ FleetExecuteSettled(r)
        \/ FleetCleanup(r)
        \/ FleetEndSessionSettled(r)

FleetSpec == FleetInit /\ [][FleetNext]_vars

\* C33: the skip-ping option is present for as long as a run awaits its
\* connect call and absent once every run has left the connect stage.
FlagPresentWhileAnyRunConnects ==
    fleet.client.skipPing <=> \E r \in Runs : fleet.runs[r].pc = "connecting"

\* C39: each run has its own owner symbol and its own implicit session; a run
\* ends only a session its own startSession call made, and its operation is
\* executed once at most, with the server its own selection returned and with
\* the session it carried or the one the run started, never with a session
\* another run started.
RunsKeepToTheirOwn ==
    /\ \A i \in DOMAIN fleet.ended : fleet.startedBy[fleet.ended[i].session] = fleet.ended[i].by
    /\ \A r \in Runs :
         LET run == fleet.runs[r]
         IN /\ Len(run.executed) <= 1
            /\ \A i \in DOMAIN run.executed :
                 /\ run.executed[i].server = run.selected
                 /\ run.executed[i].session # 0
                 /\ fleet.startedBy[run.executed[i].session] \in {0, r}
                 /\ run.operation.session # 0 =>
                       run.executed[i].session = run.operation.session
            /\ \A other \in Runs \ {r} :
                 /\ run.owner # "none" => run.owner # fleet.runs[other].owner
                 /\ run.owner # "none" /\ fleet.runs[other].owner # "none" =>
                       run.session # fleet.runs[other].session

RunEndedItsSessionBesideAnother ==
    /\ fleet.runs[1].pc = "resolved"
    /\ fleet.runs[2].pc = "executing"
    /\ fleet.runs[1].owner # "none"
    /\ fleet.runs[2].owner # "none"
    /\ fleet.ended = <<[session |-> fleet.runs[1].session, by |-> 1]>>
    /\ fleet.sessions[fleet.runs[1].session].hasEnded
    /\ ~fleet.sessions[fleet.runs[2].session].hasEnded

====
